---- MODULE Spec2Model ----
(***************************************************************************)
(* NoteBuddy backend: credential store, token issuer, persistence layer    *)
(* and request handlers (src/app/auth.py, src/app/crud.py, src/app/main.py)*)
(*                                                                         *)
(* Three specifications share the variables below:                         *)
(*   SpecHash  the credential store's pure functions (auth.py 25-67);      *)
(*   Spec      registration, login, refresh-token rotation and per-request *)
(*             verification (main.py 62-164, 448-454, auth.py 70-114);     *)
(*   SpecData  the transcript and note handlers (main.py 168-341, 472-519, *)
(*             crud.py 31-191), each handler running as one step.          *)
(*                                                                         *)
(* Strings that the code hashes, concatenates or splits (passwords, raw    *)
(* refresh tokens, salts, stored forms) are sequences of one-character     *)
(* strings.  Titles, contents, emails and messages are opaque strings.     *)
(* Time is counted in minutes.  The relational store is a set of rows per  *)
(* table plus one id sequence per table.                                   *)
(***************************************************************************)
EXTENDS Integers, Sequences, FiniteSets, TLC

VARIABLES
    users,           \* table users: rows [id, email, hashed_password], in SpecProfile with all columns
    refresh_tokens,  \* table refresh_tokens: rows [id, user_id, token_hash, expires_at, created_at]
    transcripts,     \* table transcripts: rows [id, title, content, user_id, created_at, updated_at]
    notes,           \* table notes: rows [id, title, content, transcript_id, user_id, created_at, updated_at]
    seq,             \* the id sequences of the four tables (last id handed out)
    ENVIRONMENT,     \* os.getenv("ENVIRONMENT", "development"), read once at start
    now,             \* datetime.utcnow(), in minutes
    rng,             \* number of raw refresh tokens drawn from secrets.token_urlsafe so far
    resp,            \* the request just served and its response
    client_tokens,   \* the token pairs handed to clients: [token, access_token, expires_at, redeemed]
    cred,            \* SpecHash, SpecService: the inputs and results of the calls of pure functions
    calls            \* the handler calls in flight where handlers run in steps, with their local variables

vars == <<users, refresh_tokens, transcripts, notes, seq, ENVIRONMENT, now, rng, resp, client_tokens, cred, calls>>

(***************************************************************************)
(* Bounds of the model.                                                    *)
(***************************************************************************)
MaxPwLen == 2         \* longest password tried in SpecHash
MaxUsers == 2         \* registrations
MaxLogins == 2        \* refresh_tokens rows (one per successful login)
MaxRawTokens == 3     \* raw refresh tokens drawn (logins + rotations)
MaxTicks == 2         \* clock advances in Spec
MaxTime == 1          \* last clock value in SpecData
MaxTranscripts == 2   \* transcripts created
MaxNotes == 1         \* notes created
MaxCalls == 2         \* handler calls in flight in the specifications with split handlers

(***************************************************************************)
(* Program constants.                                                      *)
(***************************************************************************)
ACCESS_TOKEN_EXPIRE_MINUTES == 30
REFRESH_TOKEN_EXPIRE_DAYS == 30
MinutesPerDay == 24 * 60
SECRET_KEY == "SECRET_KEY"
SaltLen == 2          \* characters of a salt (secrets.token_hex gives a fixed length)
TokenLen == 3         \* characters of a raw refresh token (secrets.token_urlsafe, fixed length)

NullTime == -1        \* a NULL DateTime column
NoRow == [id |-> 0]   \* fetch_one found nothing (None)

(***************************************************************************)
(* Strings as sequences of characters.                                     *)
(***************************************************************************)
HexChars == {"0", "f"}
PwChars == {"a", "$"}

RECURSIVE SeqsUpTo(_, _)
SeqsUpTo(S, n) ==
    IF n = 0 THEN {<<>>}
    ELSE LET shorter == SeqsUpTo(S, n - 1)
         IN  shorter \cup {Append(s, c) : s \in {t \in shorter : Len(t) = n - 1}, c \in S}

SeqsOfLen(S, n) == {s \in SeqsUpTo(S, n) : Len(s) = n}

\* str.split(sep): the pieces between the occurrences of sep
RECURSIVE Split(_, _)
Split(s, sep) ==
    IF \A i \in 1..Len(s) : s[i] # sep THEN <<s>>
    ELSE LET i == CHOOSE k \in 1..Len(s) :
                      s[k] = sep /\ \A j \in 1..(k - 1) : s[j] # sep
         IN  <<SubSeq(s, 1, i - 1)>> \o Split(SubSeq(s, i + 1, Len(s)), sep)

\* One character as the two hexadecimal digits of its byte
HexOf(c) ==
    CASE c = "0" -> <<"3", "0">>
      [] c = "f" -> <<"6", "6">>
      [] c = "a" -> <<"6", "1">>
      [] c = "$" -> <<"2", "4">>
      [] c = "A" -> <<"4", "1">>
      [] c = "B" -> <<"4", "2">>
      [] OTHER   -> <<"3", "f">>

\* hashlib.sha256(s.encode()).hexdigest(): a string of hexadecimal digits,
\* one-to-one on the strings of the model's alphabets
RECURSIVE Sha256Hex(_)
Sha256Hex(s) ==
    IF s = <<>> THEN <<>> ELSE HexOf(Head(s)) \o Sha256Hex(Tail(s))

(***************************************************************************)
(* Credential store (auth.py 25-67).                                       *)
(***************************************************************************)
Salts == SeqsOfLen(HexChars, SaltLen)

\* Mutants of the two functions below
get_password_hash_fixed_salt(password, salt) ==
    LET fixed == [i \in 1..SaltLen |-> "0"]
    IN  fixed \o <<"$">> \o Sha256Hex(password \o fixed)

verify_password_salt_first(plain_password, hashed_password) ==
    LET parts == Split(hashed_password, "$")
    IN  IF Len(parts) # 2
        THEN FALSE
        ELSE Sha256Hex(parts[1] \o plain_password) = parts[2]

\* salt is the value secrets.token_hex(16) returns in this call
get_password_hash(password, salt) ==
    LET password_hash == Sha256Hex(password \o salt)
    IN  salt \o <<"$">> \o password_hash

verify_password(plain_password, hashed_password) ==
    LET parts == Split(hashed_password, "$")
    IN  IF Len(parts) # 2
        THEN FALSE   \* the unpacking raises ValueError; except: return False
        ELSE LET salt == parts[1]
                 stored_hash == parts[2]
                 computed_hash == Sha256Hex(plain_password \o salt)
             IN  computed_hash = stored_hash

get_refresh_token_hash(refresh_token, salt) == get_password_hash(refresh_token, salt)

verify_refresh_token(refresh_token, token_hash) == verify_password(refresh_token, token_hash)

(***************************************************************************)
(* SpecHash: the credential store applied to drawn inputs.  cred holds the *)
(* password (or raw refresh token) that is hashed twice, once per drawn    *)
(* salt, and the plain value that is verified against both stored forms.   *)
(***************************************************************************)
Passwords == SeqsUpTo(PwChars, MaxPwLen)
TokenChars == {"A", "B"}
RawTokens == SeqsOfLen(TokenChars, TokenLen)
Unset == <<>>          \* a stored form not computed yet (no stored form is empty)

InitDb ==
    /\ users = {}
    /\ refresh_tokens = {}
    /\ transcripts = {}
    /\ notes = {}
    /\ seq = [users |-> 0, refresh_tokens |-> 0, transcripts |-> 0, notes |-> 0]
    /\ ENVIRONMENT = "development"
    /\ now = 0
    /\ rng = 0
    /\ resp = [op |-> "none"]
    /\ client_tokens = {}
    /\ calls = <<>>

NoCred == [kind |-> "none"]

InitHash ==
    /\ InitDb
    /\ \E kind \in {"password", "refresh_token"} :
       \E password \in (IF kind = "password" THEN Passwords ELSE RawTokens) :
       \E plain \in (IF kind = "password" THEN Passwords ELSE RawTokens) :
       \E salt1 \in Salts, salt2 \in Salts :
          cred = [kind |-> kind, password |-> password, plain |-> plain,
                  salt |-> <<salt1, salt2>>,
                  stored |-> <<Unset, Unset>>,
                  verified |-> <<"not called", "not called">>]

\* the i-th call of get_password_hash / get_refresh_token_hash
HashCall(i) ==
    /\ cred.stored[i] = Unset
    /\ cred' = [cred EXCEPT !.stored[i] =
                   IF cred.kind = "password"
                   THEN get_password_hash(cred.password, cred.salt[i])
                   ELSE get_refresh_token_hash(cred.password, cred.salt[i])]
    /\ UNCHANGED <<users, refresh_tokens, transcripts, notes, seq, ENVIRONMENT, now, rng, resp, client_tokens, calls>>

\* verify_password / verify_refresh_token of the plain value against the i-th stored form
VerifyCall(i) ==
    /\ cred.stored[i] # Unset
    /\ cred.verified[i] = "not called"
    /\ cred' = [cred EXCEPT !.verified[i] =
                   IF (IF cred.kind = "password"
                       THEN verify_password(cred.plain, cred.stored[i])
                       ELSE verify_refresh_token(cred.plain, cred.stored[i]))
                   THEN "True" ELSE "False"]
    /\ UNCHANGED <<users, refresh_tokens, transcripts, notes, seq, ENVIRONMENT, now, rng, resp, client_tokens, calls>>

NextHash == \E i \in 1..2 : HashCall(i) \/ VerifyCall(i)

SpecHash == InitHash /\ [][NextHash]_vars

\* C7: credential round trip.  Whenever a plain value has been verified
\* against a stored form produced by get_password_hash (or
\* get_refresh_token_hash), the result is True exactly when the plain value
\* is the value that was hashed; this covers the empty password and every salt.
C7_RoundTrip ==
    \A i \in 1..2 :
        cred.verified[i] # "not called" =>
            (cred.verified[i] = "True") = (cred.plain = cred.password)

\* C7 witness: the empty password verified True against both of its stored forms.
C7_Witness ==
    /\ cred.kind = "password"
    /\ cred.password = <<>>
    /\ cred.plain = <<>>
    /\ cred.verified[1] = "True"
    /\ cred.verified[2] = "True"

\* C8: salt randomization.  Two calls of get_password_hash on the same
\* password that drew different salts gave two different stored forms, and
\* the password verifies against each of them.
C8_SaltRandomization ==
    (/\ cred.kind = "password"
     /\ cred.stored[1] # Unset
     /\ cred.stored[2] # Unset
     /\ cred.salt[1] # cred.salt[2])
    => /\ cred.stored[1] # cred.stored[2]
       /\ \A i \in 1..2 :
             (cred.plain = cred.password /\ cred.verified[i] # "not called")
                 => cred.verified[i] = "True"

C8_Witness ==
    /\ cred.kind = "password"
    /\ cred.salt[1] # cred.salt[2]
    /\ cred.stored[1] # Unset
    /\ cred.stored[2] # Unset
    /\ cred.stored[1] # cred.stored[2]
    /\ cred.plain = cred.password
    /\ cred.verified = <<"True", "True">>

(***************************************************************************)
(* The relational store as the handlers use it.                            *)
(***************************************************************************)
\* fetch_one / scalar lookup: a matching row, or None.  Every lookup of the
\* handlers modelled here is by primary key or by a column that holds one
\* row per value.
fetch_one(rows) == IF rows = {} THEN NoRow ELSE CHOOSE r \in rows : TRUE

get_user_by_email(email) == fetch_one({u \in users : u.email = email})

\* Mutant: the user is looked up without the id
get_user_any(user_id) == fetch_one(users)

get_user(user_id) == fetch_one({u \in users : u.id = user_id})

(***************************************************************************)
(* Token issuer (auth.py 44-57, 82-114).  An access token is the claims    *)
(* it carries and the key that signed it; a string that is no JWT at all   *)
(* is the token with wellformed = FALSE.                                   *)
(***************************************************************************)
create_access_token(data, t) ==
    [wellformed |-> TRUE,
     claims |-> [sub |-> data.sub, exp |-> t + ACCESS_TOKEN_EXPIRE_MINUTES],
     key |-> SECRET_KEY]

\* Mutant: a token is refused from the instant of its exp claim on
jwt_decode_expired_at_exp(token, key) ==
    IF ~token.wellformed THEN [ok |-> FALSE]
    ELSE IF token.key # key THEN [ok |-> FALSE]
    ELSE IF token.claims.exp <= now THEN [ok |-> FALSE]
    ELSE [ok |-> TRUE, payload |-> token.claims]

\* jwt.decode: the claims, or JWTError for a malformed token, a signature
\* made with another key, or an exp claim that lies in the past
jwt_decode(token, key) ==
    IF ~token.wellformed THEN [ok |-> FALSE]
    ELSE IF token.key # key THEN [ok |-> FALSE]
    ELSE IF token.claims.exp < now THEN [ok |-> FALSE]
    ELSE [ok |-> TRUE, payload |-> token.claims]

credentials_exception ==
    [status |-> 401, detail |-> "Could not validate credentials"]

\* Mutant: the missing user reported with its own message
get_current_user_leaky(credentials) ==
    LET decoded == jwt_decode(credentials, SECRET_KEY)
    IN  IF ~decoded.ok THEN credentials_exception
        ELSE IF "sub" \notin DOMAIN decoded.payload THEN credentials_exception
        ELSE LET user == get_user_by_email(decoded.payload.sub)
             IN  IF user = NoRow
                 THEN [status |-> 401, detail |-> "User not found"]
                 ELSE [status |-> 200, user |-> user]

get_current_user(credentials) ==
    LET decoded == jwt_decode(credentials, SECRET_KEY)
    IN  IF ~decoded.ok THEN credentials_exception   \* except JWTError
        ELSE IF "sub" \notin DOMAIN decoded.payload
        THEN credentials_exception                  \* email is None
        ELSE LET user == get_user_by_email(decoded.payload.sub)
             IN  IF user = NoRow
                 THEN credentials_exception
                 ELSE [status |-> 200, user |-> user]

\* the k-th value secrets.token_urlsafe returns: TokenLen characters, all different
RawToken(k) ==
    [i \in 1..TokenLen |-> IF (k \div (2 ^ (TokenLen - i))) % 2 = 0 THEN "A" ELSE "B"]

create_refresh_token == RawToken(rng + 1)

\* Mutant: the password is not checked
authenticate_user_no_check(email, password) ==
    get_user_by_email(email)

\* False is NoRow
authenticate_user(email, password) ==
    LET user == get_user_by_email(email)
    IN  IF user = NoRow THEN NoRow
        ELSE IF ~verify_password(password, user.hashed_password) THEN NoRow
        ELSE user

(***************************************************************************)
(* Spec: the authentication endpoints (main.py 62-164, 448-454).           *)
(***************************************************************************)
Emails == {"a@x.io", "b@x.io"}
LoginPasswords == {<<>>, <<"a">>}
LoginSalts == {[i \in 1..SaltLen |-> "f"]}

REFRESH_TOKEN_EXPIRE_MINUTES == REFRESH_TOKEN_EXPIRE_DAYS * MinutesPerDay

\* The clock advances by a minute or by the life of a refresh token, MaxTicks
\* times at most.
Deltas == {1, REFRESH_TOKEN_EXPIRE_MINUTES}

RECURSIVE InstantsAfter(_)
InstantsAfter(n) ==
    IF n = 0 THEN {0}
    ELSE LET before == InstantsAfter(n - 1)
         IN  before \cup {t + d : t \in before, d \in Deltas}

Instants == InstantsAfter(MaxTicks)

db_unchanged == UNCHANGED <<users, refresh_tokens, transcripts, notes, seq, ENVIRONMENT>>

\* crud.create_user: the row it inserts
create_user(user, salt) ==
    [id |-> seq.users + 1,
     email |-> user.email,
     hashed_password |-> get_password_hash(user.password, salt)]

\* Mutant: no check for an existing email
register_no_check(email, password, salt) ==
    LET user == [email |-> email, password |-> password]
        row == create_user(user, salt)
    IN  /\ seq.users < MaxUsers
        /\ users' = users \cup {row}
        /\ seq' = [seq EXCEPT !.users = row.id]
        /\ resp' = [op |-> "register", email |-> email, password |-> password,
                    status |-> 200, id |-> row.id]
        /\ UNCHANGED <<refresh_tokens, transcripts, notes, ENVIRONMENT, now, rng, client_tokens, cred, calls>>

\* POST /auth/register
register(email, password, salt) ==
    LET user == [email |-> email, password |-> password]
        existing_user_by_email == get_user_by_email(email)
    IN  IF existing_user_by_email # NoRow
        THEN /\ resp' = [op |-> "register", email |-> email, password |-> password,
                         status |-> 400, detail |-> "Email already registered"]
             /\ db_unchanged
             /\ UNCHANGED <<now, rng, client_tokens, cred, calls>>
        ELSE LET row == create_user(user, salt)
             IN  /\ seq.users < MaxUsers
                 /\ users' = users \cup {row}
                 /\ seq' = [seq EXCEPT !.users = row.id]
                 /\ resp' = [op |-> "register", email |-> email, password |-> password,
                             status |-> 200, id |-> row.id]
                 /\ UNCHANGED <<refresh_tokens, transcripts, notes, ENVIRONMENT, now, rng, client_tokens, cred, calls>>

\* POST /auth/login
login(email, password, salt) ==
    LET user == authenticate_user(email, password)
    IN  IF user = NoRow
        THEN /\ resp' = [op |-> "login", email |-> email, password |-> password,
                         status |-> 401, detail |-> "Incorrect email or password"]
             /\ db_unchanged
             /\ UNCHANGED <<now, rng, client_tokens, cred, calls>>
        ELSE LET access_token == create_access_token([sub |-> user.email], now)
                 refresh == create_refresh_token
                 db_refresh_token ==
                     [id |-> seq.refresh_tokens + 1,
                      user_id |-> user.id,
                      token_hash |-> get_refresh_token_hash(refresh, salt),
                      expires_at |-> now + REFRESH_TOKEN_EXPIRE_MINUTES,
                      created_at |-> now]
             IN  /\ rng < MaxRawTokens
                 /\ seq.refresh_tokens < MaxLogins
                 /\ rng' = rng + 1
                 /\ refresh_tokens' = refresh_tokens \cup {db_refresh_token}
                 /\ seq' = [seq EXCEPT !.refresh_tokens = db_refresh_token.id]
                 /\ resp' = [op |-> "login", email |-> email, password |-> password,
                             status |-> 200, access_token |-> access_token,
                             refresh_token |-> refresh, token_type |-> "bearer"]
                 /\ client_tokens' = client_tokens \cup
                        {[token |-> refresh, access_token |-> access_token,
                          expires_at |-> db_refresh_token.expires_at, redeemed |-> FALSE]}
                 /\ UNCHANGED <<users, transcripts, notes, ENVIRONMENT, now, cred, calls>>

\* Mutant: the scan keeps the rows that expire at this instant
matching_tokens_inclusive(presented) ==
    {token \in refresh_tokens :
        /\ token.expires_at >= now
        /\ verify_refresh_token(presented, token.token_hash)}

\* the rows the scan of refresh_token matches: unexpired, and the hash verifies
matching_tokens(presented) ==
    {token \in refresh_tokens :
        /\ token.expires_at > now
        /\ verify_refresh_token(presented, token.token_hash)}

\* Mutant: rotation issues a new token and leaves the stored hash as it was
rotate_keep_hash(token, new_hash) ==
    [token EXCEPT !.expires_at = now + REFRESH_TOKEN_EXPIRE_MINUTES,
                  !.created_at = now]

\* the matched row after rotation (main.py 153-155)
rotate(token, new_hash) ==
    [token EXCEPT !.token_hash = new_hash,
                  !.expires_at = now + REFRESH_TOKEN_EXPIRE_MINUTES,
                  !.created_at = now]

\* Mutant: a refresh ends the user's other sessions
commit_rotation_single_session(matching_token, new_hash) ==
    {token \in refresh_tokens : token.user_id # matching_token.user_id}
        \cup {rotate(matching_token, new_hash)}

\* the refresh_tokens table after db.commit(): the matched row is the only
\* object of the session that was modified (main.py 153-157)
commit_rotation(matching_token, new_hash) ==
    (refresh_tokens \ {matching_token}) \cup {rotate(matching_token, new_hash)}

\* POST /auth/refresh
refresh_token(presented, salt) ==
    LET matching_token == fetch_one(matching_tokens(presented))
        request == [op |-> "refresh", presented |-> presented]
    IN  IF matching_token = NoRow
        THEN /\ resp' = request @@ [status |-> 401, detail |-> "Invalid refresh token"]
             /\ db_unchanged
             /\ UNCHANGED <<now, rng, client_tokens, cred, calls>>
        ELSE LET user == get_user(matching_token.user_id)
             IN  IF user = NoRow
                 THEN /\ resp' = request @@ [status |-> 401, detail |-> "User not found"]
                      /\ db_unchanged
                      /\ UNCHANGED <<now, rng, client_tokens, cred, calls>>
                 ELSE LET access_token == create_access_token([sub |-> user.email], now)
                          new_refresh_token == create_refresh_token
                          new_refresh_token_hash ==
                              get_refresh_token_hash(new_refresh_token, salt)
                      IN  /\ rng < MaxRawTokens
                          /\ rng' = rng + 1
                          /\ refresh_tokens' =
                                 commit_rotation(matching_token, new_refresh_token_hash)
                          /\ resp' = request @@
                                 [status |-> 200, access_token |-> access_token,
                                  refresh_token |-> new_refresh_token,
                                  token_type |-> "bearer"]
                          /\ client_tokens' =
                                 {IF c.token = presented THEN [c EXCEPT !.redeemed = TRUE] ELSE c :
                                      c \in client_tokens}
                                 \cup {[token |-> new_refresh_token,
                                        access_token |-> access_token,
                                        expires_at |-> now + REFRESH_TOKEN_EXPIRE_MINUTES,
                                        redeemed |-> FALSE]}
                          /\ UNCHANGED <<users, transcripts, notes, seq, ENVIRONMENT, now, cred, calls>>

\* The bearer tokens a client can present: issued by create_access_token for
\* some email (now, so long ago that exp is this minute, or a minute earlier
\* still), the fresh ones signed with another key, a token signed by the
\* server that carries no sub claim, and a string that is no JWT.
PresentedAccessTokens ==
    LET ages == {0, ACCESS_TOKEN_EXPIRE_MINUTES, ACCESS_TOKEN_EXPIRE_MINUTES + 1}
        issued == {create_access_token([sub |-> e], now - age) : e \in Emails, age \in ages}
        fresh == {create_access_token([sub |-> e], now) : e \in Emails}
    IN  issued
        \cup {[tok EXCEPT !.key = "another key"] : tok \in fresh}
        \cup {[wellformed |-> TRUE,
                claims |-> [exp |-> now + ACCESS_TOKEN_EXPIRE_MINUTES],
                key |-> SECRET_KEY]}
        \cup {[wellformed |-> FALSE]}

\* GET /users/profile: get_current_active_user, then the user is returned
get_user_profile(credentials) ==
    LET current_user == get_current_user(credentials)
    IN  /\ resp' = [op |-> "get_user_profile", credentials |-> credentials] @@ current_user
        /\ db_unchanged
        /\ UNCHANGED <<now, rng, client_tokens, cred, calls>>

\* Time passes
Tick(d) ==
    /\ now + d \in Instants
    /\ now' = now + d
    /\ resp' = [op |-> "tick"]
    /\ db_unchanged
    /\ UNCHANGED <<rng, client_tokens, cred, calls>>

Init ==
    /\ InitDb
    /\ cred = NoCred

Next ==
    \/ \E email \in Emails, password \in LoginPasswords, salt \in LoginSalts :
          register(email, password, salt)
    \/ \E email \in Emails, password \in LoginPasswords, salt \in LoginSalts :
          login(email, password, salt)
    \/ \E k \in 0..MaxRawTokens, salt \in LoginSalts :
          refresh_token(RawToken(k), salt)
    \/ \E d \in Deltas : Tick(d)

Spec == Init /\ [][Next]_vars

\* SpecVerify: per-request verification of bearer tokens against the users table
NextVerify ==
    \/ \E email \in Emails, password \in LoginPasswords, salt \in LoginSalts :
          register(email, password, salt)
    \/ \E credentials \in PresentedAccessTokens : get_user_profile(credentials)
    \/ \E d \in Deltas : Tick(d)

SpecVerify == Init /\ [][NextVerify]_vars

(***************************************************************************)
(* Persistence layer for transcripts and notes (crud.py 31-191).  Each     *)
(* operator that writes returns the table after the statement.             *)
(***************************************************************************)
\* Mutant: title and content that the body omits are written as empty
SetValues_unset_as_empty(row, values) ==
    [column \in DOMAIN row |->
        IF column \in DOMAIN values THEN values[column]
        ELSE IF column \in {"title", "content"} THEN ""
        ELSE row[column]]

\* a row with the columns of values written; the other columns keep their values
SetValues(row, values) ==
    [column \in DOMAIN row |-> IF column \in DOMAIN values THEN values[column] ELSE row[column]]

\* Mutants: lookups by id alone
get_transcript_any_owner(transcript_id, user_id) ==
    fetch_one({t \in transcripts : t.id = transcript_id})

get_note_any_owner(note_id, user_id) ==
    fetch_one({n \in notes : n.id = note_id})

get_transcript(transcript_id, user_id) ==
    fetch_one({t \in transcripts : t.id = transcript_id /\ t.user_id = user_id})

get_note(note_id, user_id) ==
    fetch_one({n \in notes : n.id = note_id /\ n.user_id = user_id})

get_note_by_transcript(transcript_id, user_id) ==
    fetch_one({n \in notes : n.transcript_id = transcript_id /\ n.user_id = user_id})

\* The rows in the order of ORDER BY updated_at DESC NULLS LAST, created_at DESC
\* (rows that tie on both columns come in an order the store chooses)
OrderedBefore(a, b) ==
    IF a.updated_at # b.updated_at
    THEN (b.updated_at = NullTime) \/ (a.updated_at # NullTime /\ a.updated_at > b.updated_at)
    ELSE IF a.created_at # b.created_at THEN a.created_at > b.created_at
    ELSE a.id < b.id

RECURSIVE SortRows(_)
SortRows(rows) ==
    IF rows = {} THEN <<>>
    ELSE LET first == CHOOSE a \in rows : \A b \in rows \ {a} : OrderedBefore(a, b)
         IN  <<first>> \o SortRows(rows \ {first})

get_user_transcripts(user_id) ==
    SortRows({t \in transcripts : t.user_id = user_id})

get_user_notes(user_id) == {n \in notes : n.user_id = user_id}

create_transcript_row(transcript, user_id) ==
    [id |-> seq.transcripts + 1,
     title |-> transcript.title,
     content |-> transcript.content,
     user_id |-> user_id,
     created_at |-> now,
     updated_at |-> NullTime]

create_note_row(note, user_id) ==
    [id |-> seq.notes + 1,
     title |-> note.title,
     content |-> note.content,
     transcript_id |-> note.transcript_id,
     user_id |-> user_id,
     created_at |-> now,
     updated_at |-> NullTime]

\* .values(**transcript_update, updated_at=datetime.utcnow()): Python raises
\* TypeError when the dict itself carries the key updated_at
update_transcript_rows(transcript_id, transcript_update, user_id) ==
    LET transcript == get_transcript(transcript_id, user_id)
    IN  IF transcript = NoRow
        THEN [raised |-> "no", rows |-> transcripts, result |-> NoRow]
        ELSE IF "updated_at" \in DOMAIN transcript_update
        THEN [raised |-> "TypeError", rows |-> transcripts, result |-> NoRow]
        ELSE LET row == SetValues(transcript, transcript_update @@ [updated_at |-> now])
             IN  [raised |-> "no",
                  rows |-> (transcripts \ {transcript}) \cup {row},
                  result |-> row]

update_note_rows(note_id, note_update, user_id) ==
    LET note == get_note(note_id, user_id)
    IN  IF note = NoRow
        THEN [raised |-> "no", rows |-> notes, result |-> NoRow]
        ELSE IF "updated_at" \in DOMAIN note_update
        THEN [raised |-> "TypeError", rows |-> notes, result |-> NoRow]
        ELSE LET row == SetValues(note, note_update @@ [updated_at |-> now])
             IN  [raised |-> "no", rows |-> (notes \ {note}) \cup {row}, result |-> row]

\* Mutant: the new content is not written
update_note_with_answers_rows_title_only(note_id, updated_title, updated_content, user_id) ==
    LET note == get_note(note_id, user_id)
    IN  IF note = NoRow
        THEN [rows |-> notes, result |-> NoRow]
        ELSE LET row == SetValues(note, [title |-> updated_title, updated_at |-> now])
             IN  [rows |-> (notes \ {note}) \cup {row}, result |-> row]

\* Mutant: the answer is written without touching updated_at
update_note_with_answers_rows_keep_time(note_id, updated_title, updated_content, user_id) ==
    LET note == get_note(note_id, user_id)
    IN  IF note = NoRow
        THEN [rows |-> notes, result |-> NoRow]
        ELSE LET row == SetValues(note, [title |-> updated_title,
                                         content |-> updated_content])
             IN  [rows |-> (notes \ {note}) \cup {row}, result |-> row]

\* crud.update_note_with_answers
update_note_with_answers_rows(note_id, updated_title, updated_content, user_id) ==
    LET note == get_note(note_id, user_id)
    IN  IF note = NoRow
        THEN [rows |-> notes, result |-> NoRow]
        ELSE LET row == SetValues(note, [title |-> updated_title,
                                         content |-> updated_content,
                                         updated_at |-> now])
             IN  [rows |-> (notes \ {note}) \cup {row}, result |-> row]

\* Mutant: the note is deleted whoever asks
delete_note_rows_any_owner(note_id, user_id) ==
    LET note == fetch_one({n \in notes : n.id = note_id})
    IN  [rows |-> notes \ {note}, result |-> note]

delete_note_rows(note_id, user_id) ==
    LET note == get_note(note_id, user_id)
    IN  IF note = NoRow
        THEN [rows |-> notes, result |-> NoRow]
        ELSE [rows |-> {n \in notes : ~(n.id = note_id /\ n.user_id = user_id)},
              result |-> note]

\* Mutant: the transcript is deleted and its note is left behind
delete_transcript_rows_no_cascade(transcript_id, user_id) ==
    LET transcript == get_transcript(transcript_id, user_id)
    IN  [transcripts |-> transcripts \ {transcript}, notes |-> notes, result |-> transcript]

delete_transcript_rows(transcript_id, user_id) ==
    LET transcript == get_transcript(transcript_id, user_id)
    IN  IF transcript = NoRow
        THEN [transcripts |-> transcripts, notes |-> notes, result |-> NoRow]
        ELSE LET related_note == get_note_by_transcript(transcript_id, user_id)
                 notes_left == IF related_note = NoRow
                               THEN notes
                               ELSE delete_note_rows(related_note.id, user_id).rows
             IN  [transcripts |->
                      {t \in transcripts : ~(t.id = transcript_id /\ t.user_id = user_id)},
                  notes |-> notes_left,
                  result |-> transcript]

(***************************************************************************)
(* Texts that the handlers search are sequences of words.                  *)
(***************************************************************************)
LowerWord(w) ==
    CASE w = "API" -> "api"
      [] w = "DeepSeek" -> "deepseek"
      [] w = "Incorrect" -> "incorrect"
      [] w = "Connection" -> "connection"
      [] w = "Authorization" -> "authorization"
      [] w = "Request" -> "request"
      [] w = "Rate" -> "rate"
      [] w = "Expecting" -> "expecting"
      [] w = "JSON" -> "json"
      [] w = "NoneType" -> "nonetype"
      [] OTHER -> w

Lower(text) == [i \in 1..Len(text) |-> LowerWord(text[i])]

\* sub in text
Contains(text, sub) ==
    \E i \in 1..(Len(text) - Len(sub) + 1) : SubSeq(text, i, i + Len(sub) - 1) = sub

\* the detail the except branch of an AI endpoint chooses (main.py 296-311)
error_detail(error_message, otherwise) ==
    IF \/ Contains(Lower(error_message), <<"API", "key">>)
       \/ Contains(Lower(error_message), <<"authorization">>)
    THEN [detail |-> "DeepSeek API authentication failed. Please check your API key configuration."]
    ELSE IF \/ Contains(Lower(error_message), <<"connection">>)
            \/ Contains(Lower(error_message), <<"timeout">>)
    THEN [detail |-> "Unable to connect to DeepSeek API. Please check your internet connection."]
    ELSE IF \/ Contains(Lower(error_message), <<"quota">>)
            \/ Contains(Lower(error_message), <<"limit">>)
    THEN [detail |-> "DeepSeek API quota exceeded. Please check your usage limits."]
    ELSE [detail |-> otherwise, error_message |-> error_message]

(***************************************************************************)
(* Note generation service (ai_services.py).  The provider's answers to    *)
(* the successive completion requests of one call are an input: a          *)
(* completion whose content is the JSON object asked for, a completion     *)
(* whose content is no JSON, a completion without content, or an error.    *)
(***************************************************************************)
JsonNote == [kind |-> "json", title |-> "ai title", content |-> "ai content",
             questions |-> <<"q1", "q2">>]
TextNoJson == [kind |-> "text"]
NoContent == [kind |-> "none"]
ProviderError(message) == [kind |-> "error", message |-> message]
NoChoices == [kind |-> "no_choices"]   \* a response whose choices list is empty
EmptyText == [kind |-> "empty"]        \* a completion whose content is ""

ProviderErrors ==
    {ProviderError(<<"Incorrect", "API", "key", "provided">>),
     ProviderError(<<"Authorization", "failed">>),
     ProviderError(<<"Connection", "error">>),
     ProviderError(<<"Request", "timeout">>),
     ProviderError(<<"quota", "exceeded">>),
     ProviderError(<<"Rate", "limit", "reached">>),
     ProviderError(<<"server", "error">>)}

ProviderAnswers == {JsonNote, TextNoJson, NoContent} \cup ProviderErrors

\* Mutant: a failed completion request is sent once more
call_deepseek_retry(answers) ==
    IF answers[1].kind # "error"
    THEN [raised |-> FALSE, content |-> answers[1], calls |-> 1]
    ELSE IF answers[2].kind # "error"
    THEN [raised |-> FALSE, content |-> answers[2], calls |-> 2]
    ELSE [raised |-> TRUE, calls |-> 2,
          message |-> <<"DeepSeek", "API", "error:">> \o answers[2].message]

\* _call_deepseek: one completion request; an exception of the client is
\* raised again as Exception("DeepSeek API error: ...")
call_deepseek(answers) ==
    IF answers[1].kind = "error"
    THEN [raised |-> TRUE, calls |-> 1,
          message |-> <<"DeepSeek", "API", "error:">> \o answers[1].message]
    ELSE IF answers[1].kind = "no_choices"   \* choices[0] raises IndexError in the try
    THEN [raised |-> TRUE, calls |-> 1,
          message |-> <<"DeepSeek", "API", "error:", "list", "index", "out", "of", "range">>]
    ELSE [raised |-> FALSE, content |-> answers[1], calls |-> 1]

\* json.loads(response): JSONDecodeError for text that is no JSON, TypeError
\* for None
json_loads(response) ==
    CASE response.kind = "json" -> [raised |-> FALSE, data |-> response]
      [] response.kind \in {"text", "empty"} ->
            [raised |-> TRUE,
             message |-> <<"Expecting", "value:", "line", "1", "column", "1", "(char", "0)">>]
      [] OTHER ->
            [raised |-> TRUE,
             message |-> <<"the", "JSON", "object", "must", "be", "str,", "bytes", "or",
                           "bytearray,", "not", "NoneType">>]

\* DeepSeekService.generate_note_from_transcript and .update_note_with_answer:
\* (title, content) of the parsed completion, or the exception that leaves
\* the service
deepseek_note(answers) ==
    LET response == call_deepseek(answers)
    IN  IF response.raised
        THEN [calls |-> response.calls, ok |-> FALSE,
              error_message |-> response.message, answers |-> answers]
        ELSE LET parsed == json_loads(response.content)
             IN  IF parsed.raised
                 THEN [calls |-> response.calls, ok |-> FALSE,
                       error_message |-> parsed.message, answers |-> answers]
                 ELSE [calls |-> response.calls, ok |-> TRUE,
                       title |-> parsed.data.title, content |-> parsed.data.content,
                       answers |-> answers]

\* DeepSeekService.generate_follow_up_questions
deepseek_questions(answers) ==
    LET response == call_deepseek(answers)
    IN  IF response.raised
        THEN [calls |-> response.calls, ok |-> FALSE,
              error_message |-> response.message, answers |-> answers]
        ELSE LET parsed == json_loads(response.content)
             IN  IF parsed.raised
                 THEN [calls |-> response.calls, ok |-> FALSE,
                       error_message |-> parsed.message, answers |-> answers]
                 ELSE [calls |-> response.calls, ok |-> TRUE,
                       questions |-> parsed.data.questions, answers |-> answers]

(***************************************************************************)
(* SpecData: the transcript and note endpoints (main.py 168-341, 472-519). *)
(* Two users are registered; each request carries a bearer token.          *)
(***************************************************************************)
Titles == {"t1"}
Contents == {"c1"}
TranscriptUpdates == {[title |-> "t2"]}
NoteUpdates == {[title |-> "t2"]}

\* what deepseek_service.generate_note_from_transcript does in SpecData: it
\* returns (title, content), or the provider cannot be reached
AiOutcomes ==
    {deepseek_note(<<JsonNote, JsonNote>>),
     deepseek_note(<<ProviderError(<<"Connection", "error">>), JsonNote>>)}

\* bearer tokens of the two users, issued at the start, and a string that is no JWT
DataCredentials ==
    {create_access_token([sub |-> e], 0) : e \in Emails} \cup {[wellformed |-> FALSE]}

\* ids a request can name: every id handed out so far and one never handed out
TranscriptIds == 1..(MaxTranscripts + 1)
NoteIds == 1..(MaxNotes + 1)

auth_unchanged == UNCHANGED <<users, refresh_tokens, ENVIRONMENT, rng, client_tokens, cred, calls>>

\* the response when get_current_active_user raises
Unauthenticated(op) ==
    /\ resp' = [op |-> op, external_calls |-> 0] @@ credentials_exception
    /\ UNCHANGED <<transcripts, notes, seq, now>>
    /\ auth_unchanged

\* a response that leaves the store as it is
Respond(response) ==
    /\ resp' = response
    /\ UNCHANGED <<transcripts, notes, seq, now>>
    /\ auth_unchanged

\* POST /transcripts/
create_transcript(credentials, transcript) ==
    LET current_user == get_current_user(credentials)
    IN  IF current_user.status # 200 THEN Unauthenticated("create_transcript")
        ELSE LET row == create_transcript_row(transcript, current_user.user.id)
             IN  /\ seq.transcripts < MaxTranscripts
                 /\ transcripts' = transcripts \cup {row}
                 /\ seq' = [seq EXCEPT !.transcripts = row.id]
                 /\ resp' = [op |-> "create_transcript", caller |-> current_user.user.id,
                             status |-> 200, body |-> row]
                 /\ UNCHANGED <<notes, now>>
                 /\ auth_unchanged

\* GET /transcripts/
read_transcripts(credentials, include_note) ==
    LET current_user == get_current_user(credentials)
    IN  IF current_user.status # 200 THEN Unauthenticated("read_transcripts")
        ELSE LET listed == get_user_transcripts(current_user.user.id)
                 result == [i \in 1..Len(listed) |->
                               listed[i] @@
                               [note |-> get_note_by_transcript(listed[i].id,
                                                                current_user.user.id)]]
             IN  Respond([op |-> "read_transcripts", caller |-> current_user.user.id,
                          include_note |-> include_note, status |-> 200,
                          body |-> IF include_note THEN result ELSE listed])

\* GET /transcripts/{transcript_id}
read_transcript(credentials, transcript_id) ==
    LET current_user == get_current_user(credentials)
    IN  IF current_user.status # 200 THEN Unauthenticated("read_transcript")
        ELSE LET transcript == get_transcript(transcript_id, current_user.user.id)
                 note == get_note_by_transcript(transcript_id, current_user.user.id)
                 request == [op |-> "read_transcript", caller |-> current_user.user.id,
                             id |-> transcript_id]
             IN  IF transcript = NoRow
                 THEN Respond(request @@ [status |-> 404, detail |-> "Transcript not found"])
                 ELSE Respond(request @@
                              [status |-> 200, body |-> transcript @@ [note_id |-> note.id]])

\* PUT /transcripts/{transcript_id}
update_transcript(credentials, transcript_id, transcript_update) ==
    LET current_user == get_current_user(credentials)
    IN  IF current_user.status # 200 THEN Unauthenticated("update_transcript")
        ELSE LET done == update_transcript_rows(transcript_id, transcript_update,
                                                current_user.user.id)
                 request == [op |-> "update_transcript", caller |-> current_user.user.id,
                             id |-> transcript_id, update |-> transcript_update]
             IN  IF done.result = NoRow
                 THEN Respond(request @@ [status |-> 404, detail |-> "Transcript not found"])
                 ELSE /\ transcripts' = done.rows
                      /\ resp' = request @@ [status |-> 200, body |-> done.result]
                      /\ UNCHANGED <<notes, seq, now>>
                      /\ auth_unchanged

\* DELETE /transcripts/{transcript_id}
delete_transcript(credentials, transcript_id) ==
    LET current_user == get_current_user(credentials)
    IN  IF current_user.status # 200 THEN Unauthenticated("delete_transcript")
        ELSE LET done == delete_transcript_rows(transcript_id, current_user.user.id)
                 request == [op |-> "delete_transcript", caller |-> current_user.user.id,
                             id |-> transcript_id,
                             related_note |->
                                 get_note_by_transcript(transcript_id, current_user.user.id).id]
             IN  IF done.result = NoRow
                 THEN Respond(request @@ [status |-> 404, detail |-> "Transcript not found"])
                 ELSE /\ transcripts' = done.transcripts
                      /\ notes' = done.notes
                      /\ resp' = request @@
                             [status |-> 200, message |-> "Transcript deleted successfully",
                              deleted |-> done.result]
                      /\ UNCHANGED <<seq, now>>
                      /\ auth_unchanged

\* POST /transcripts/{transcript_id}/generate-note; ai is what the external call does
generate_note_from_transcript(credentials, transcript_id, ai) ==
    LET current_user == get_current_user(credentials)
    IN  IF current_user.status # 200 THEN Unauthenticated("generate_note")
        ELSE LET transcript == get_transcript(transcript_id, current_user.user.id)
                 existing_note == get_note_by_transcript(transcript_id, current_user.user.id)
                 request == [op |-> "generate_note", caller |-> current_user.user.id,
                             id |-> transcript_id, existing_note |-> existing_note.id,
                             ai |-> ai,
                             external_calls |-> IF transcript = NoRow THEN 0 ELSE ai.calls]
             IN  IF transcript = NoRow
                 THEN Respond(request @@ [status |-> 404, detail |-> "Transcript not found"])
                 ELSE IF ~ai.ok
                 THEN Respond(request @@ [status |-> 500] @@
                              (IF ENVIRONMENT = "Production"
                               THEN [detail |-> "Internal error. Please contact the product team."]
                               ELSE error_detail(ai.error_message, "Error generating note: {error_message}")))
                 ELSE IF existing_note # NoRow
                 THEN LET update_data == [title |-> ai.title, content |-> ai.content,
                                          created_at |-> now, updated_at |-> NullTime]
                          done == update_note_rows(existing_note.id, update_data,
                                                   current_user.user.id)
                      IN  IF done.raised # "no"
                          THEN \* the exception leaves the handler: 500
                               Respond(request @@
                                       [status |-> 500, detail |-> "Internal Server Error"])
                          ELSE /\ notes' = done.rows
                               /\ resp' = request @@ [status |-> 200, body |-> done.result]
                               /\ UNCHANGED <<transcripts, seq, now>>
                               /\ auth_unchanged
                 ELSE LET note_data == [title |-> ai.title, content |-> ai.content,
                                        transcript_id |-> transcript_id]
                          row == create_note_row(note_data, current_user.user.id)
                      IN  /\ seq.notes < MaxNotes
                          /\ notes' = notes \cup {row}
                          /\ seq' = [seq EXCEPT !.notes = row.id]
                          /\ resp' = request @@ [status |-> 200, body |-> row]
                          /\ UNCHANGED <<transcripts, now>>
                          /\ auth_unchanged

\* GET /notes/
read_notes(credentials) ==
    LET current_user == get_current_user(credentials)
    IN  IF current_user.status # 200 THEN Unauthenticated("read_notes")
        ELSE Respond([op |-> "read_notes", caller |-> current_user.user.id,
                      status |-> 200, body |-> get_user_notes(current_user.user.id)])

\* GET /notes/{note_id}
read_note(credentials, note_id) ==
    LET current_user == get_current_user(credentials)
    IN  IF current_user.status # 200 THEN Unauthenticated("read_note")
        ELSE LET note == get_note(note_id, current_user.user.id)
                 request == [op |-> "read_note", caller |-> current_user.user.id,
                             id |-> note_id]
             IN  IF note = NoRow
                 THEN Respond(request @@ [status |-> 404, detail |-> "Note not found"])
                 ELSE Respond(request @@ [status |-> 200, body |-> note])

\* PUT /notes/{note_id}
update_note(credentials, note_id, note_update) ==
    LET current_user == get_current_user(credentials)
    IN  IF current_user.status # 200 THEN Unauthenticated("update_note")
        ELSE LET done == update_note_rows(note_id, note_update, current_user.user.id)
                 request == [op |-> "update_note", caller |-> current_user.user.id,
                             id |-> note_id, update |-> note_update]
             IN  IF done.raised # "no"
                 THEN Respond(request @@ [status |-> 500, detail |-> "Internal Server Error"])
                 ELSE IF done.result = NoRow
                 THEN Respond(request @@ [status |-> 404, detail |-> "Note not found"])
                 ELSE /\ notes' = done.rows
                      /\ resp' = request @@ [status |-> 200, body |-> done.result]
                      /\ UNCHANGED <<transcripts, seq, now>>
                      /\ auth_unchanged

\* DELETE /notes/{note_id}
delete_note(credentials, note_id) ==
    LET current_user == get_current_user(credentials)
    IN  IF current_user.status # 200 THEN Unauthenticated("delete_note")
        ELSE LET done == delete_note_rows(note_id, current_user.user.id)
                 request == [op |-> "delete_note", caller |-> current_user.user.id,
                             id |-> note_id]
             IN  IF done.result = NoRow
                 THEN Respond(request @@ [status |-> 404, detail |-> "Note not found"])
                 ELSE /\ notes' = done.rows
                      /\ resp' = request @@
                             [status |-> 200, message |-> "Note deleted successfully"]
                      /\ UNCHANGED <<transcripts, seq, now>>
                      /\ auth_unchanged

\* POST /notes/{note_id}/generate-questions
generate_follow_up_questions(credentials, note_id, ai) ==
    LET current_user == get_current_user(credentials)
    IN  IF current_user.status # 200 THEN Unauthenticated("generate_questions")
        ELSE LET note == get_note(note_id, current_user.user.id)
                 request == [op |-> "generate_questions", caller |-> current_user.user.id,
                             id |-> note_id, ai |-> ai,
                             external_calls |-> IF note = NoRow THEN 0 ELSE ai.calls]
             IN  IF note = NoRow
                 THEN Respond(request @@ [status |-> 404, detail |-> "Note not found"])
                 ELSE IF ~ai.ok
                 THEN Respond(request @@ [status |-> 500] @@
                              error_detail(ai.error_message,
                                           "Error generating questions: {error_message}"))
                 ELSE Respond(request @@ [status |-> 200, body |-> ai.questions])

\* what deepseek_service.update_note_with_answer is called with
\* (main.py 409-414): the content of the note as read, the question, the answer
answer_prompt(note, answer_data) ==
    [question |-> answer_data.question,
     answer |-> answer_data.answer,
     note_content |-> note.content]

\* Mutant: the body is validated before the note is looked up
update_note_with_answer_validate_first(credentials, note_id, answer_data, ai) ==
    LET current_user == get_current_user(credentials)
        sent == [op |-> "update_with_answer", credentials |-> credentials,
                 id |-> note_id, answer_data |-> answer_data, ai |-> ai]
    IN  IF current_user.status # 200
        THEN Respond(sent @@ [external_calls |-> 0] @@ credentials_exception)
        ELSE IF answer_data.question = "" \/ answer_data.answer = ""
        THEN Respond(sent @@ [caller |-> current_user.user.id, external_calls |-> 0,
                              status |-> 400,
                              detail |-> "Both question and answer are required"])
        ELSE LET note == get_note(note_id, current_user.user.id)
                 request == sent @@ [caller |-> current_user.user.id,
                                     external_calls |-> IF note = NoRow THEN 0 ELSE ai.calls]
             IN  IF note = NoRow
                 THEN Respond(request @@ [status |-> 404, detail |-> "Note not found"])
                 ELSE IF ~ai.ok
                 THEN Respond(request @@ [status |-> 500] @@
                              error_detail(ai.error_message,
                                           "Error updating note: {error_message}")
                              @@ [prompt |-> answer_prompt(note, answer_data)])
                 ELSE LET done == update_note_with_answers_rows(
                                      note_id, ai.title, ai.content, current_user.user.id)
                      IN  /\ notes' = done.rows
                          /\ resp' = request @@ [status |-> 200, body |-> done.result]
                                        @@ [prompt |-> answer_prompt(note, answer_data)]
                          /\ UNCHANGED <<transcripts, seq, now>>
                          /\ auth_unchanged

\* POST /notes/{note_id}/update-with-answer
update_note_with_answer(credentials, note_id, answer_data, ai) ==
    LET current_user == get_current_user(credentials)
        sent == [op |-> "update_with_answer", credentials |-> credentials,
                 id |-> note_id, answer_data |-> answer_data, ai |-> ai]
    IN  IF current_user.status # 200
        THEN Respond(sent @@ [external_calls |-> 0] @@ credentials_exception)
        ELSE LET note == get_note(note_id, current_user.user.id)
                 invalid == answer_data.question = "" \/ answer_data.answer = ""
                 request == sent @@ [caller |-> current_user.user.id,
                                     external_calls |->
                                         IF note = NoRow \/ invalid THEN 0 ELSE ai.calls]
             IN  IF note = NoRow
                 THEN Respond(request @@ [status |-> 404, detail |-> "Note not found"])
                 ELSE IF invalid
                 THEN Respond(request @@ [status |-> 400,
                                          detail |-> "Both question and answer are required"])
                 ELSE IF ~ai.ok
                 THEN Respond(request @@ [status |-> 500] @@
                              error_detail(ai.error_message,
                                           "Error updating note: {error_message}")
                              @@ [prompt |-> answer_prompt(note, answer_data)])
                 ELSE LET done == update_note_with_answers_rows(
                                      note_id, ai.title, ai.content, current_user.user.id)
                      IN  /\ notes' = done.rows
                          /\ resp' = request @@ [status |-> 200, body |-> done.result]
                                        @@ [prompt |-> answer_prompt(note, answer_data)]
                          /\ UNCHANGED <<transcripts, seq, now>>
                          /\ auth_unchanged

\* Time passes
TickData ==
    /\ now < MaxTime
    /\ now' = now + 1
    /\ resp' = [op |-> "tick"]
    /\ UNCHANGED <<transcripts, notes, seq>>
    /\ auth_unchanged

\* Two users have registered; the server was started with this environment name
Registered(environment) ==
    /\ users = {[id |-> 1, email |-> "a@x.io",
                 hashed_password |-> get_password_hash(<<"a">>, [i \in 1..SaltLen |-> "0"])],
                [id |-> 2, email |-> "b@x.io",
                 hashed_password |-> get_password_hash(<<>>, [i \in 1..SaltLen |-> "f"])]}
    /\ refresh_tokens = {}
    /\ transcripts = {}
    /\ notes = {}
    /\ seq = [users |-> 2, refresh_tokens |-> 0, transcripts |-> 0, notes |-> 0]
    /\ ENVIRONMENT = environment
    /\ now = 0
    /\ rng = 0
    /\ resp = [op |-> "none"]
    /\ client_tokens = {}
    /\ cred = NoCred
    /\ calls = <<>>

InitData == Registered("development")

NextData ==
    \/ \E credentials \in DataCredentials, title \in Titles, content \in Contents :
          create_transcript(credentials, [title |-> title, content |-> content])
    \/ \E credentials \in DataCredentials, include_note \in BOOLEAN :
          read_transcripts(credentials, include_note)
    \/ \E credentials \in DataCredentials, transcript_id \in TranscriptIds :
          read_transcript(credentials, transcript_id)
    \/ \E credentials \in DataCredentials, transcript_id \in TranscriptIds,
           transcript_update \in TranscriptUpdates :
          update_transcript(credentials, transcript_id, transcript_update)
    \/ \E credentials \in DataCredentials, transcript_id \in TranscriptIds :
          delete_transcript(credentials, transcript_id)
    \/ \E credentials \in DataCredentials, transcript_id \in TranscriptIds,
           ai \in AiOutcomes :
          generate_note_from_transcript(credentials, transcript_id, ai)
    \/ \E credentials \in DataCredentials : read_notes(credentials)
    \/ \E credentials \in DataCredentials, note_id \in NoteIds :
          read_note(credentials, note_id)
    \/ \E credentials \in DataCredentials, note_id \in NoteIds,
           note_update \in NoteUpdates :
          update_note(credentials, note_id, note_update)
    \/ \E credentials \in DataCredentials, note_id \in NoteIds :
          delete_note(credentials, note_id)
    \/ TickData

SpecData == InitData /\ [][NextData]_vars

(***************************************************************************)
(* SpecUpdate: every handler that writes transcripts or notes, with every  *)
(* body the update schemas accept after model_dump(exclude_unset=True):    *)
(* title, content, both, or neither.                                       *)
(***************************************************************************)
UpdateBodies ==
    {[title |-> "t2"], [content |-> "c2"], [title |-> "t2", content |-> "c2"], <<>>}

\* the bearer token of the first user
UserCredentials == {create_access_token([sub |-> "a@x.io"], 0)}

NextUpdate ==
    \/ \E credentials \in UserCredentials, title \in Titles, content \in Contents :
          create_transcript(credentials, [title |-> title, content |-> content])
    \/ \E credentials \in UserCredentials, transcript_id \in TranscriptIds,
           transcript_update \in UpdateBodies :
          update_transcript(credentials, transcript_id, transcript_update)
    \/ \E credentials \in UserCredentials, transcript_id \in TranscriptIds :
          delete_transcript(credentials, transcript_id)
    \/ \E credentials \in UserCredentials, transcript_id \in TranscriptIds,
           ai \in AiOutcomes :
          generate_note_from_transcript(credentials, transcript_id, ai)
    \/ \E credentials \in UserCredentials, note_id \in NoteIds,
           note_update \in UpdateBodies :
          update_note(credentials, note_id, note_update)
    \/ \E credentials \in UserCredentials, note_id \in NoteIds, ai \in AiOutcomes :
          update_note_with_answer(credentials, note_id,
                                  [question |-> "why?", answer |-> "because"], ai)
    \/ \E credentials \in UserCredentials, note_id \in NoteIds :
          delete_note(credentials, note_id)
    \/ TickData

SpecUpdate == InitData /\ [][NextUpdate]_vars

(***************************************************************************)
(* SpecOwner: every handler that writes transcripts or notes, called by    *)
(* the two users on each other's ids.                                      *)
(***************************************************************************)
\* bearer tokens of the two users
BothCredentials == {create_access_token([sub |-> e], 0) : e \in Emails}

NextOwner ==
    \/ \E credentials \in BothCredentials, title \in Titles, content \in Contents :
          create_transcript(credentials, [title |-> title, content |-> content])
    \/ \E credentials \in BothCredentials, transcript_id \in TranscriptIds,
           transcript_update \in TranscriptUpdates :
          update_transcript(credentials, transcript_id, transcript_update)
    \/ \E credentials \in BothCredentials, transcript_id \in TranscriptIds :
          delete_transcript(credentials, transcript_id)
    \/ \E credentials \in BothCredentials, transcript_id \in TranscriptIds,
           ai \in AiOutcomes :
          generate_note_from_transcript(credentials, transcript_id, ai)
    \/ \E credentials \in BothCredentials, note_id \in NoteIds,
           note_update \in NoteUpdates :
          update_note(credentials, note_id, note_update)
    \/ \E credentials \in BothCredentials, note_id \in NoteIds, ai \in AiOutcomes :
          update_note_with_answer(credentials, note_id,
                                  [question |-> "why?", answer |-> "because"], ai)
    \/ \E credentials \in BothCredentials, note_id \in NoteIds :
          delete_note(credentials, note_id)

SpecOwner == InitData /\ [][NextOwner]_vars

(***************************************************************************)
(* SpecAi: the three endpoints that call the note generation service       *)
(* (main.py 266-444), with every kind of provider answer, in both          *)
(* environments.                                                           *)
(***************************************************************************)
Environments == {"development", "Production"}

\* the provider's answers to a first and, were there one, a second request
AnswerSequences ==
    {<<first, JsonNote>> : first \in ProviderAnswers}
        \cup {<<ProviderError(<<"server", "error">>), ProviderError(<<"server", "error">>)>>}

\* schemas.AnswerSubmission: two strings, either of which can be empty
AnswerData ==
    {[question |-> "why?", answer |-> "because"],
     [question |-> "", answer |-> "because"],
     [question |-> "why?", answer |-> ""]}

InitAi == \E environment \in Environments : Registered(environment)

NextAi ==
    \/ \E credentials \in DataCredentials, title \in Titles, content \in Contents :
          create_transcript(credentials, [title |-> title, content |-> content])
    \/ \E credentials \in DataCredentials, transcript_id \in TranscriptIds,
           answers \in AnswerSequences :
          generate_note_from_transcript(credentials, transcript_id, deepseek_note(answers))
    \/ \E credentials \in DataCredentials, note_id \in NoteIds,
           answers \in AnswerSequences :
          generate_follow_up_questions(credentials, note_id, deepseek_questions(answers))
    \/ \E credentials \in DataCredentials, note_id \in NoteIds,
           answer_data \in AnswerData, answers \in AnswerSequences :
          update_note_with_answer(credentials, note_id, answer_data, deepseek_note(answers))

SpecAi == InitAi /\ [][NextAi]_vars

(***************************************************************************)
(* SpecConc: generate-note served to several clients at once.  A call runs *)
(* up to its await of the external service (main.py 270-291), other calls  *)
(* run, and it resumes with the local variables it had (main.py 292-341).  *)
(* Each request has its own database session; the notes table has no       *)
(* unique constraint on transcript_id (models.py 48).                      *)
(***************************************************************************)
\* the external call succeeds
AiSuccess == deepseek_note(<<JsonNote, JsonNote>>)

\* main.py 270-291: authentication, the transcript, the existing note; then
\* the handler awaits deepseek_service.generate_note_from_transcript
generate_note_read(credentials, transcript_id) ==
    LET current_user == get_current_user(credentials)
    IN  /\ Len(calls) < MaxCalls
        /\ current_user.status = 200
        /\ LET transcript == get_transcript(transcript_id, current_user.user.id)
               existing_note == get_note_by_transcript(transcript_id, current_user.user.id)
               request == [op |-> "generate_note", caller |-> current_user.user.id,
                           id |-> transcript_id, existing_note |-> existing_note.id]
           IN  IF transcript = NoRow
               THEN /\ resp' = request @@ [ai |-> AiSuccess, external_calls |-> 0,
                                           status |-> 404,
                                           detail |-> "Transcript not found"]
                    /\ calls' = Append(calls, [pc |-> "done"])
               ELSE /\ resp' = [op |-> "generate_note_await", call |-> Len(calls) + 1]
                    /\ calls' = Append(calls, [pc |-> "await"] @@ request)
        /\ UNCHANGED <<transcripts, notes, seq, now>>
        /\ UNCHANGED <<users, refresh_tokens, ENVIRONMENT, rng, client_tokens, cred>>

\* main.py 292-341: the external call has returned to call r; the note is
\* written according to the existing_note that was read before the await.
\* notes.transcript_id is declared ForeignKey("transcripts.id") (models.py
\* 48): a database that enforces foreign keys rejects the insert of a note
\* whose transcript is gone (IntegrityError, answered 500); one that does
\* not (SQLite unless PRAGMA foreign_keys is set) stores the row.
generate_note_write(r, ai, foreign_keys) ==
    LET call == calls[r]
        request == [op |-> "generate_note", caller |-> call.caller, id |-> call.id,
                    existing_note |-> call.existing_note, ai |-> ai,
                    external_calls |-> ai.calls]
    IN  /\ call.pc = "await"
        /\ calls' = [calls EXCEPT ![r] = [pc |-> "done"]]
        /\ UNCHANGED <<users, refresh_tokens, ENVIRONMENT, rng, client_tokens, cred>>
        /\ UNCHANGED <<transcripts, now>>
        /\ IF ~ai.ok
           THEN /\ resp' = request @@ [status |-> 500] @@
                       (IF ENVIRONMENT = "Production"
                        THEN [detail |-> "Internal error. Please contact the product team."]
                        ELSE error_detail(ai.error_message, "Error generating note: {error_message}"))
                /\ UNCHANGED <<notes, seq>>
           ELSE IF call.existing_note # 0
           THEN LET update_data == [title |-> ai.title, content |-> ai.content,
                                    created_at |-> now, updated_at |-> NullTime]
                    done == update_note_rows(call.existing_note, update_data, call.caller)
                IN  IF done.raised # "no"
                    THEN /\ resp' = request @@
                                [status |-> 500, detail |-> "Internal Server Error"]
                         /\ UNCHANGED <<notes, seq>>
                    ELSE /\ notes' = done.rows
                         /\ resp' = request @@ [status |-> 200, body |-> done.result]
                         /\ UNCHANGED seq
           ELSE IF foreign_keys /\ ~\E t \in transcripts : t.id = call.id
           THEN /\ resp' = request @@ [status |-> 500, detail |-> "Internal Server Error"]
                /\ UNCHANGED <<notes, seq>>
           ELSE LET note_data == [title |-> ai.title, content |-> ai.content,
                                  transcript_id |-> call.id]
                    row == create_note_row(note_data, call.caller)
                IN  /\ notes' = notes \cup {row}
                    /\ seq' = [seq EXCEPT !.notes = row.id]
                    /\ resp' = request @@ [status |-> 200, body |-> row]

NextConc ==
    \/ \E credentials \in DataCredentials, title \in Titles, content \in Contents :
          create_transcript(credentials, [title |-> title, content |-> content])
    \/ \E credentials \in DataCredentials, transcript_id \in TranscriptIds :
          generate_note_read(credentials, transcript_id)
    \/ \E r \in 1..Len(calls), ai \in AiOutcomes, foreign_keys \in BOOLEAN :
          generate_note_write(r, ai, foreign_keys)
    \/ TickData

SpecConc == InitData /\ [][NextConc]_vars

\* SpecOrphan: generate-note calls in flight while transcripts are deleted
NextOrphan ==
    \/ \E credentials \in DataCredentials, title \in Titles, content \in Contents :
          create_transcript(credentials, [title |-> title, content |-> content])
    \/ \E credentials \in DataCredentials, transcript_id \in TranscriptIds :
          delete_transcript(credentials, transcript_id)
    \/ \E credentials \in DataCredentials, transcript_id \in TranscriptIds :
          generate_note_read(credentials, transcript_id)
    \/ \E r \in 1..Len(calls), ai \in AiOutcomes, foreign_keys \in BOOLEAN :
          generate_note_write(r, ai, foreign_keys)

SpecOrphan == InitData /\ [][NextOrphan]_vars

(***************************************************************************)
(* Claims about the authentication endpoints.                              *)
(***************************************************************************)
\* C1: refresh-token rotation.  A refresh request that presents a raw token
\* which a client received (from login or from a refresh) and which has
\* already been redeemed is answered 401 "Invalid refresh token"; a refresh
\* request that presents a received token which has not been redeemed and
\* whose expiry lies ahead succeeds.
C1_Rotation ==
    [][resp'.op = "refresh" =>
        \A c \in client_tokens :
            c.token = resp'.presented =>
                /\ c.redeemed =>
                      (resp'.status = 401 /\ resp'.detail = "Invalid refresh token")
                /\ (~c.redeemed /\ c.expires_at > now) => resp'.status = 200]_vars

\* C1 witness: a token that login returned and a refresh redeemed has just
\* been presented again and was rejected, and the token that refresh
\* returned is still held unredeemed.
C1_Witness ==
    /\ resp.op = "refresh"
    /\ resp.status = 401
    /\ \E c \in client_tokens : c.token = resp.presented /\ c.redeemed
    /\ \E c \in client_tokens : ~c.redeemed /\ c.expires_at > now

C9_Login ==
    [][resp'.op = "login" =>
        LET registered == {u \in users : u.email = resp'.email}
            failing == \/ registered = {}
                       \/ \E u \in registered :
                             ~verify_password(resp'.password, u.hashed_password)
        IN  IF failing
            THEN /\ resp' = [op |-> "login", email |-> resp'.email,
                             password |-> resp'.password, status |-> 401,
                             detail |-> "Incorrect email or password"]
                 /\ refresh_tokens' = refresh_tokens
                 /\ client_tokens' = client_tokens
            ELSE /\ resp'.status = 200
                 /\ \E row \in refresh_tokens' \ refresh_tokens :
                       /\ refresh_tokens' = refresh_tokens \cup {row}
                       /\ \E u \in registered : row.user_id = u.id
                       /\ verify_refresh_token(resp'.refresh_token, row.token_hash)]_vars

\* C9 witness: a login with the wrong password for a registered email was
\* rejected while that user holds a refresh token from an earlier login.
C9_Witness ==
    /\ resp.op = "login"
    /\ resp.status = 401
    /\ \E u \in users :
          /\ u.email = resp.email
          /\ \E t \in refresh_tokens : t.user_id = u.id

\* C10: per-request verification.  The bearer token is accepted, and the
\* user record returned, exactly when it is a JWT signed with the server
\* key whose exp does not lie in the past and whose sub is the email of an
\* existing user; in every other case the outcome is the one response 401
\* "Could not validate credentials".
C10_Verification ==
    resp.op = "get_user_profile" =>
        LET tok == resp.credentials
            good == /\ tok.wellformed
                    /\ tok.key = SECRET_KEY
                    /\ tok.claims.exp >= now
                    /\ "sub" \in DOMAIN tok.claims
                    /\ \E u \in users : u.email = tok.claims.sub
        IN  IF good
            THEN /\ resp.status = 200
                 /\ resp.user \in users
                 /\ resp.user.email = tok.claims.sub
            ELSE resp = [op |-> "get_user_profile", credentials |-> tok,
                         status |-> 401, detail |-> "Could not validate credentials"]

\* C10 witness: a well-signed, unexpired token whose subject is not a user
\* was rejected while another user exists.
C10_Witness ==
    /\ resp.op = "get_user_profile"
    /\ resp.status = 401
    /\ resp.credentials.wellformed
    /\ resp.credentials.key = SECRET_KEY
    /\ resp.credentials.claims.exp >= now
    /\ "sub" \in DOMAIN resp.credentials.claims
    /\ users # {}

\* C11: multiple sessions.  A successful refresh changes exactly one
\* refresh_tokens row, the one whose hash verified the presented token: it
\* keeps its id and its owner, every other row (of the same user or of
\* another) is as before, and every other token that a client holds
\* unredeemed and unexpired still matches an unexpired row; a rejected
\* refresh changes no row.
C11_MultipleSessions ==
    [][resp'.op = "refresh" =>
        IF resp'.status = 200
        THEN \E old \in refresh_tokens, new \in refresh_tokens' :
                /\ verify_refresh_token(resp'.presented, old.token_hash)
                /\ new.id = old.id
                /\ new.user_id = old.user_id
                /\ refresh_tokens \ {old} = refresh_tokens' \ {new}
                /\ \A c \in client_tokens :
                      (c.token # resp'.presented /\ ~c.redeemed /\ c.expires_at > now)
                          => \E row \in refresh_tokens' \ {new} :
                                /\ row.expires_at > now
                                /\ verify_refresh_token(c.token, row.token_hash)
        ELSE refresh_tokens' = refresh_tokens]_vars

\* C11 witness: one user logged in twice, one of the two tokens has just
\* been redeemed and the other is still held unredeemed and unexpired.
C11_Witness ==
    /\ resp.op = "refresh"
    /\ resp.status = 200
    /\ Cardinality(refresh_tokens) = 2
    /\ \A t1, t2 \in refresh_tokens : t1.user_id = t2.user_id
    /\ \E c \in client_tokens :
          /\ ~c.redeemed
          /\ c.token # resp.refresh_token
          /\ c.expires_at > now

\* C12: refresh-token expiry.  A refresh request whose presented token
\* verifies against a row with expires_at <= now is answered 401 and leaves
\* the refresh_tokens table (that row included) as it was; a successful
\* refresh leaves the matched row with expires_at = now + 30 days.
C12_Expiry ==
    [][resp'.op = "refresh" =>
        /\ (\E row \in refresh_tokens :
                /\ verify_refresh_token(resp'.presented, row.token_hash)
                /\ row.expires_at <= now)
              => /\ resp'.status = 401
                 /\ refresh_tokens' = refresh_tokens
        /\ resp'.status = 200
              => \E row \in refresh_tokens' :
                    /\ verify_refresh_token(resp'.refresh_token, row.token_hash)
                    /\ row.expires_at =
                          now + REFRESH_TOKEN_EXPIRE_DAYS * MinutesPerDay]_vars

\* C12 witness: a token was presented at the very instant its row expires
\* and was rejected; the row is still stored.
C12_Witness ==
    /\ resp.op = "refresh"
    /\ resp.status = 401
    /\ \E row \in refresh_tokens :
          /\ verify_refresh_token(resp.presented, row.token_hash)
          /\ row.expires_at = now

(***************************************************************************)
(* Claims about the transcript and note endpoints.                         *)
(***************************************************************************)
Authenticated(response) == "caller" \in DOMAIN response

OwnedTranscript(transcript_id, user_id) ==
    \E t \in transcripts : t.id = transcript_id /\ t.user_id = user_id

OwnedNote(note_id, user_id) ==
    \E n \in notes : n.id = note_id /\ n.user_id = user_id

\* C2: cascade delete.  Deleting a transcript its caller owns succeeds and
\* returns the deleted transcript; afterwards the transcript and every note
\* that belonged to it are not found for that user; when it had no note,
\* the notes table is as before and exactly the transcript row is gone.
C2_CascadeDelete ==
    [][resp'.op = "delete_transcript" /\ Authenticated(resp')
       /\ OwnedTranscript(resp'.id, resp'.caller) =>
        LET had == {n \in notes : n.transcript_id = resp'.id}
        IN  /\ resp'.status = 200
            /\ resp'.deleted \in transcripts
            /\ resp'.deleted.id = resp'.id
            /\ ~\E t \in transcripts' : t.id = resp'.id
            /\ \A n \in had : ~\E m \in notes' : m.id = n.id
            /\ \A n \in notes \ had : n \in notes'
            /\ transcripts' = transcripts \ {resp'.deleted}
            /\ had = {} => notes' = notes]_vars

\* C2 witness: a transcript that had a note was deleted while the other
\* transcript is still stored.
C2_Witness ==
    /\ resp.op = "delete_transcript"
    /\ resp.status = 200
    /\ resp.related_note # 0
    /\ notes = {}
    /\ transcripts # {}

\* C3: regeneration overwrite.  When generate-note is called for a
\* transcript that already has a note and the external call succeeds, the
\* request succeeds and the note keeps its id, carries the generated title
\* and content, has created_at reset to the current time and updated_at
\* null, and no second note row exists.
C3_RegenerationOverwrite ==
    [][(/\ resp'.op = "generate_note"
        /\ Authenticated(resp')
        /\ OwnedTranscript(resp'.id, resp'.caller)
        /\ resp'.existing_note # 0
        /\ resp'.ai.ok)
       => /\ resp'.status = 200
          /\ \E n \in notes' :
                /\ n.id = resp'.existing_note
                /\ n.title = resp'.ai.title
                /\ n.content = resp'.ai.content
                /\ n.created_at = now
                /\ n.updated_at = NullTime
          /\ Cardinality(notes') = Cardinality(notes)]_vars

\* C4: read isolation.  A fetch by id of a transcript or note that another
\* user owns is answered 404, and the lists returned to a user (with or
\* without the notes included) hold only rows of that user.
C4_ReadIsolation ==
    /\ (resp.op = "read_transcript" /\ Authenticated(resp)) =>
          ((\E t \in transcripts : t.id = resp.id /\ t.user_id # resp.caller)
              => (resp.status = 404 /\ resp.detail = "Transcript not found"))
    /\ (resp.op = "read_note" /\ Authenticated(resp)) =>
          ((\E n \in notes : n.id = resp.id /\ n.user_id # resp.caller)
              => (resp.status = 404 /\ resp.detail = "Note not found"))
    /\ (resp.op = "read_transcripts" /\ Authenticated(resp)) =>
          \A i \in 1..Len(resp.body) :
              /\ resp.body[i].user_id = resp.caller
              /\ (resp.include_note /\ resp.body[i].note # NoRow)
                    => resp.body[i].note.user_id = resp.caller
    /\ (resp.op = "read_notes" /\ Authenticated(resp)) =>
          \A n \in resp.body : n.user_id = resp.caller

\* C4 witness: a user who owns a transcript asked for the note of the
\* other user and got 404.
C4_Witness ==
    /\ resp.op = "read_note"
    /\ resp.status = 404
    /\ \E n \in notes : n.id = resp.id /\ n.user_id # resp.caller
    /\ \E t \in transcripts : t.user_id = resp.caller

\* C5: an update or delete of a transcript or note whose id does not exist
\* or belongs to another user is answered 404 and leaves the transcripts
\* and notes tables as they were.
C5_NotFoundLeavesStore ==
    [][(/\ Authenticated(resp')
        /\ \/ /\ resp'.op \in {"update_transcript", "delete_transcript"}
              /\ ~OwnedTranscript(resp'.id, resp'.caller)
           \/ /\ resp'.op \in {"update_note", "delete_note"}
              /\ ~OwnedNote(resp'.id, resp'.caller))
       => /\ resp'.status = 404
          /\ transcripts' = transcripts
          /\ notes' = notes]_vars

\* C5 witness: a delete of another user's note was answered 404.
C5_Witness ==
    /\ resp.op = "delete_note"
    /\ resp.status = 404
    /\ \E n \in notes : n.id = resp.id /\ n.user_id # resp.caller

(***************************************************************************)
(* Claims about ownership and updates.                                     *)
(***************************************************************************)
OwnershipConsistent ==
    \A n \in notes, t \in transcripts : n.transcript_id = t.id => n.user_id = t.user_id

\* C14: ownership consistency.  After every handler step each note whose
\* transcript exists has the owner of that transcript, and no step changes
\* the transcript_id or user_id of a note or the user_id of a transcript.
C14_OwnershipConsistency ==
    [][/\ OwnershipConsistent'
       /\ \A n \in notes, m \in notes' :
             n.id = m.id => (m.transcript_id = n.transcript_id /\ m.user_id = n.user_id)
       /\ \A t \in transcripts, u \in transcripts' :
             t.id = u.id => u.user_id = t.user_id]_vars

\* C14 witness: the second user has a transcript with a note that was
\* rewritten by update-with-answer, and the first user has a transcript too.
C14_Witness ==
    /\ resp.op = "update_with_answer"
    /\ resp.status = 200
    /\ \E n \in notes, t \in transcripts :
          /\ n.id = resp.id
          /\ n.transcript_id = t.id
          /\ t.user_id = 2
          /\ t.updated_at # NullTime
    /\ \E t \in transcripts : t.user_id = 1

\* C15: updated_at lifecycle.  A row that a step creates has updated_at
\* null; the updated_at of a stored transcript or note changes only in a
\* successful update of that very row; and after a successful
\* update_transcript, update_note or update-with-answer the row's
\* updated_at is not null.
C15_UpdatedAtLifecycle ==
    [][/\ \A u \in transcripts' :
             (\A t \in transcripts : t.id # u.id) => u.updated_at = NullTime
       /\ \A m \in notes' :
             (\A n \in notes : n.id # m.id) => m.updated_at = NullTime
       /\ \A t \in transcripts, u \in transcripts' :
             (t.id = u.id /\ t.updated_at # u.updated_at)
                 => (resp'.op = "update_transcript" /\ resp'.status = 200
                     /\ resp'.id = t.id)
       /\ \A n \in notes, m \in notes' :
             (n.id = m.id /\ n.updated_at # m.updated_at)
                 => (resp'.op \in {"update_note", "update_with_answer"}
                     /\ resp'.status = 200 /\ resp'.id = n.id)
       /\ (resp'.op = "update_transcript" /\ resp'.status = 200)
             => \E u \in transcripts' : u.id = resp'.id /\ u.updated_at # NullTime
       /\ (resp'.op \in {"update_note", "update_with_answer"} /\ resp'.status = 200)
             => \E m \in notes' : m.id = resp'.id /\ m.updated_at # NullTime]_vars

\* C15 witness: a note created at time 0 was first updated, by
\* update-with-answer, at time 1, while a transcript is still never updated.
C15_Witness ==
    /\ resp.op = "update_with_answer"
    /\ resp.status = 200
    /\ resp.body.created_at = 0
    /\ resp.body.updated_at = 1
    /\ \E t \in transcripts : t.updated_at = NullTime

\* C16: partial update.  A successful update of a transcript or note writes
\* the columns of the body, sets updated_at to the current time, and leaves
\* the row's other columns (omitted title or content, id, owner,
\* created_at, transcript_id) and every other row as they were.
C16_PartialUpdate ==
    [][(resp'.op \in {"update_transcript", "update_note"} /\ resp'.status = 200) =>
        LET table == IF resp'.op = "update_transcript" THEN transcripts ELSE notes
            table_after == IF resp'.op = "update_transcript" THEN transcripts' ELSE notes'
            body == resp'.update
        IN  /\ \E old \in table, new \in table_after :
                 /\ old.id = resp'.id
                 /\ new.id = resp'.id
                 /\ table \ {old} = table_after \ {new}
                 /\ DOMAIN new = DOMAIN old
                 /\ \A column \in DOMAIN old :
                       new[column] = IF column \in DOMAIN body THEN body[column]
                                     ELSE IF column = "updated_at" THEN now
                                     ELSE old[column]
                 /\ resp'.body = new
            /\ resp'.op = "update_transcript" => notes' = notes
            /\ resp'.op = "update_note" => transcripts' = transcripts]_vars

\* C16 witness: a transcript whose title had been changed got an update of
\* the content alone, at a later time than its creation, and kept the title.
C16_Witness ==
    /\ resp.op = "update_transcript"
    /\ resp.status = 200
    /\ DOMAIN resp.update = {"content"}
    /\ resp.body.title = "t2"
    /\ resp.body.content = "c2"
    /\ resp.body.created_at < resp.body.updated_at
    /\ Cardinality(transcripts) = 2

\* C23: answer integration.  When update-with-answer on a note its caller
\* owns is answered 200 with the external result (title', content'), the
\* note then has that title and content and a non-null updated_at, its id,
\* transcript_id, user_id and created_at are as before, no other row
\* changed, and the external call was given the content the note had when
\* the request read it, the question and the answer.
C23_AnswerIntegration ==
    [][(resp'.op = "update_with_answer" /\ resp'.status = 200) =>
        \E old \in notes, new \in notes' :
           /\ old.id = resp'.id
           /\ new.id = resp'.id
           /\ old.user_id = resp'.caller
           /\ new.title = resp'.ai.title
           /\ new.content = resp'.ai.content
           /\ new.updated_at # NullTime
           /\ new.transcript_id = old.transcript_id
           /\ new.user_id = old.user_id
           /\ new.created_at = old.created_at
           /\ notes' \ {new} = notes \ {old}
           /\ transcripts' = transcripts
           /\ resp'.body = new
           /\ resp'.prompt.note_content = old.content
           /\ resp'.prompt.question = resp'.answer_data.question
           /\ resp'.prompt.answer = resp'.answer_data.answer]_vars

\* C23 witness: a note that had been edited by hand to "c2" was rewritten by
\* update-with-answer with the provider's title and content.
C23_Witness ==
    /\ resp.op = "update_with_answer"
    /\ resp.status = 200
    /\ resp.prompt.note_content = "c2"
    /\ resp.body.content = resp.ai.content
    /\ resp.body.content # "c2"
    /\ resp.body.created_at < resp.body.updated_at

(***************************************************************************)
(* Claims about the endpoints that call the note generation service.       *)
(***************************************************************************)
AiOps == {"generate_note", "generate_questions", "update_with_answer"}

\* the request reached the external call and the service raised
ExternalFailure(response) ==
    /\ response.op \in AiOps
    /\ response.external_calls > 0
    /\ ~response.ai.ok

ContainsIgnoreCase(text, sub) == Contains(Lower(text), Lower(sub))

GenericDetail(op) ==
    CASE op = "generate_note" -> "Error generating note: {error_message}"
      [] op = "generate_questions" -> "Error generating questions: {error_message}"
      [] OTHER -> "Error updating note: {error_message}"

\* C17: keyword classification outside production.  When the external call
\* of one of the three endpoints fails, the answer is 500 and its message is
\* chosen by case-insensitive search of the error text: "api key" or
\* "authorization" give the authentication-failed message, else "connection"
\* or "timeout" the unable-to-connect message, else "quota" or "limit" the
\* quota-exceeded message, else the generic message with the error text.
C17_KeywordClassification ==
    (ExternalFailure(resp) /\ ENVIRONMENT # "Production") =>
        LET text == resp.ai.error_message
        IN  /\ resp.status = 500
            /\ IF \/ ContainsIgnoreCase(text, <<"api", "key">>)
                  \/ ContainsIgnoreCase(text, <<"authorization">>)
               THEN resp.detail = "DeepSeek API authentication failed. Please check your API key configuration."
               ELSE IF \/ ContainsIgnoreCase(text, <<"connection">>)
                       \/ ContainsIgnoreCase(text, <<"timeout">>)
               THEN resp.detail = "Unable to connect to DeepSeek API. Please check your internet connection."
               ELSE IF \/ ContainsIgnoreCase(text, <<"quota">>)
                       \/ ContainsIgnoreCase(text, <<"limit">>)
               THEN resp.detail = "DeepSeek API quota exceeded. Please check your usage limits."
               ELSE /\ resp.detail = GenericDetail(resp.op)
                    /\ resp.error_message = text

\* C18: production collapse.  In the production environment a failure of
\* the external call on any of the three endpoints is answered 500 with the
\* one generic message, whatever the error text.
C18_ProductionCollapse ==
    (ExternalFailure(resp) /\ ENVIRONMENT = "Production") =>
        /\ resp.status = 500
        /\ resp.detail = "Internal error. Please contact the product team."
        /\ "error_message" \notin DOMAIN resp

\* C19: no retry, no partial write.  A request to one of the three
\* endpoints sends at most one completion request; when the provider's
\* answer to it is an error, text that is no JSON or an empty completion,
\* the request is answered 500 and the notes and transcripts tables are as
\* before.
C19_NoRetryNoPartialWrite ==
    [][resp'.op \in AiOps =>
        /\ resp'.external_calls <= 1
        /\ (resp'.external_calls > 0 /\ resp'.ai.answers[1].kind # "json")
              => /\ resp'.status = 500
                 /\ notes' = notes
                 /\ transcripts' = transcripts
                 /\ seq' = seq]_vars

\* C19 witness: update-with-answer for an owned note got a completion
\* without content and was answered 500; the note has never been updated.
C19_Witness ==
    /\ resp.op = "update_with_answer"
    /\ resp.status = 500
    /\ resp.external_calls = 1
    /\ resp.ai.answers[1].kind = "none"
    /\ \E n \in notes : n.id = resp.id /\ n.updated_at = NullTime

C13_OneNotePerTranscript ==
    \A n1, n2 \in notes : n1.transcript_id = n2.transcript_id => n1 = n2

(***************************************************************************)
(* SpecProfile: registration with the whole UserCreate body and the        *)
(* profile endpoints (main.py 62-72, 448-468; crud.py 8-18; schemas.py     *)
(* 16-39; models.py 9-20).  The rows of users carry all columns here.      *)
(***************************************************************************)
NullStr == "None"     \* a NULL String column, None in a body

ProfileFields == {"language", "first_name", "last_name", "nick_name", "gender"}

\* schemas.UserCreate(**body): language defaults to "Chinese", nick_name and
\* gender to None; email, password, first_name and last_name are required
UserCreate(body) ==
    [password |-> body.password,
     email |-> body.email,
     language |-> IF "language" \in DOMAIN body THEN body.language ELSE "Chinese",
     first_name |-> body.first_name,
     last_name |-> body.last_name,
     nick_name |-> IF "nick_name" \in DOMAIN body THEN body.nick_name ELSE NullStr,
     gender |-> IF "gender" \in DOMAIN body THEN body.gender ELSE NullStr]

\* crud.create_user: the columns its insert names (crud.py 12-16)
create_user_values(user, salt) ==
    [hashed_password |-> get_password_hash(user.password, salt),
     email |-> user.email,
     created_at |-> now]

\* The row the users table takes for an insert of values: the id from the
\* sequence, the column default of language, NULL for the nullable columns.
\* first_name and last_name are NOT NULL without a default (models.py 16-17):
\* a database in strict mode rejects an insert that names neither
\* (IntegrityError), a permissive one stores its implicit default ''.
insert_user(values, sql_mode) ==
    IF sql_mode = "strict" /\ ~({"first_name", "last_name"} \subseteq DOMAIN values)
    THEN [ok |-> FALSE]
    ELSE [ok |-> TRUE,
          row |-> [id |-> seq.users + 1,
                   hashed_password |-> values.hashed_password,
                   email |-> values.email,
                   created_at |-> values.created_at,
                   language |-> IF "language" \in DOMAIN values
                                THEN values.language ELSE "Chinese",
                   first_name |-> IF "first_name" \in DOMAIN values
                                  THEN values.first_name ELSE "",
                   last_name |-> IF "last_name" \in DOMAIN values
                                 THEN values.last_name ELSE "",
                   nick_name |-> IF "nick_name" \in DOMAIN values
                                 THEN values.nick_name ELSE NullStr,
                   gender |-> IF "gender" \in DOMAIN values
                              THEN values.gender ELSE NullStr]]

\* response_model=schemas.User: the fields of the row that are returned
UserResponse(row) ==
    [column \in {"id", "email", "created_at"} \cup ProfileFields |-> row[column]]

internal_server_error == [status |-> 500, detail |-> "Internal Server Error"]

\* POST /auth/register with the whole body
register_user(body, salt, sql_mode) ==
    LET user == UserCreate(body)
        request == [op |-> "register_user", user |-> user]
        existing_user_by_email == get_user_by_email(user.email)
    IN  IF existing_user_by_email # NoRow
        THEN /\ resp' = request @@ [status |-> 400, detail |-> "Email already registered"]
             /\ db_unchanged
             /\ UNCHANGED <<now, rng, client_tokens, cred, calls>>
        ELSE LET inserted == insert_user(create_user_values(user, salt), sql_mode)
             IN  /\ seq.users < MaxUsers
                 /\ IF inserted.ok
                    THEN /\ users' = users \cup {inserted.row}
                         /\ seq' = [seq EXCEPT !.users = inserted.row.id]
                         /\ resp' = request @@
                                [status |-> 200, body |-> UserResponse(inserted.row)]
                    ELSE /\ resp' = request @@ internal_server_error
                         /\ UNCHANGED <<users, seq>>
                 /\ UNCHANGED <<refresh_tokens, transcripts, notes, ENVIRONMENT, now, rng,
                                client_tokens, cred, calls>>

\* PUT /users/profile.  The handler calls crud.update_user (main.py 465),
\* a name crud.py does not define: the call raises AttributeError, which no
\* handler catches, and the request is answered 500.
update_user_profile(credentials, user_update) ==
    LET current_user == get_current_user(credentials)
        request == [op |-> "update_user_profile", credentials |-> credentials,
                    user_update |-> user_update]
    IN  /\ IF current_user.status # 200
           THEN resp' = request @@ credentials_exception
           ELSE resp' = request @@ [caller |-> current_user.user.id]
                                @@ internal_server_error
        /\ db_unchanged
        /\ UNCHANGED <<now, rng, client_tokens, cred, calls>>

FirstNames == {"Ada"}
LastNames == {"Lovelace"}

\* the register bodies: the required fields alone, and all fields
RegisterBodies ==
    LET required == {[password |-> p, email |-> e, first_name |-> f, last_name |-> l] :
                        e \in Emails, p \in LoginPasswords, f \in FirstNames, l \in LastNames}
    IN  required
        \cup {b @@ [language |-> "English", nick_name |-> "ada", gender |-> "Female"] :
                 b \in required}

\* the bodies of PUT /users/profile (schemas.UserUpdate, exclude_unset)
UserUpdates ==
    {[language |-> "English"],
     [first_name |-> "Grace", nick_name |-> "gh"],
     [language |-> "English", first_name |-> "Grace", last_name |-> "Hopper",
      nick_name |-> "gh", gender |-> "Female"]}

SqlModes == {"strict", "permissive"}

NextProfile ==
    \/ \E body \in RegisterBodies, salt \in LoginSalts, sql_mode \in SqlModes :
          register_user(body, salt, sql_mode)
    \/ \E credentials \in PresentedAccessTokens : get_user_profile(credentials)
    \/ \E credentials \in PresentedAccessTokens, user_update \in UserUpdates :
          update_user_profile(credentials, user_update)

SpecProfile == Init /\ [][NextProfile]_vars

\* C21: registration persists the profile.  A register request answered 200
\* stores one new user whose email, first_name, last_name, language,
\* nick_name and gender are those of the body (language "Chinese", nick_name
\* and gender null when omitted), returns these values, and neither stores
\* nor returns the plaintext password.
C21_RegistrationPersistsProfile ==
    [][(resp'.op = "register_user" /\ resp'.status = 200) =>
        \E row \in users' :
           /\ users' = users \cup {row}
           /\ row \notin users
           /\ row.email = resp'.user.email
           /\ \A field \in ProfileFields :
                 /\ row[field] = resp'.user[field]
                 /\ resp'.body[field] = resp'.user[field]
           /\ resp'.body.email = resp'.user.email
           /\ resp'.body.id = row.id
           /\ "password" \notin DOMAIN row
           /\ "password" \notin DOMAIN resp'.body
           /\ "hashed_password" \notin DOMAIN resp'.body
           /\ row.hashed_password # resp'.user.password]_vars

\* C22: profile update.  PUT /users/profile by an authenticated user is
\* answered 200; exactly the supplied profile fields of that user take the
\* supplied values; the user's other columns and every other user are
\* unchanged; and no step of any handler removes a user.
C22_ProfileUpdate ==
    [][/\ \A u \in users : \E v \in users' : v.id = u.id
       /\ (resp'.op = "update_user_profile" /\ Authenticated(resp')) =>
             /\ resp'.status = 200
             /\ \E u \in users, v \in users' :
                   /\ u.id = resp'.caller
                   /\ v.id = resp'.caller
                   /\ users' \ {v} = users \ {u}
                   /\ \A column \in DOMAIN u :
                         v[column] = IF column \in DOMAIN resp'.user_update
                                     THEN resp'.user_update[column]
                                     ELSE u[column]]_vars

(***************************************************************************)
(* SpecAccess: access tokens issued by login and refresh, presented later. *)
(* Two users are registered.  The clock moves to the instants around the   *)
(* expiry of a refresh token issued at 0 and of an access token issued a   *)
(* little less than its life before that.                                  *)
(***************************************************************************)
AccessInstants ==
    {0,
     REFRESH_TOKEN_EXPIRE_MINUTES - ACCESS_TOKEN_EXPIRE_MINUTES + 1,
     REFRESH_TOKEN_EXPIRE_MINUTES,
     REFRESH_TOKEN_EXPIRE_MINUTES + 1,
     REFRESH_TOKEN_EXPIRE_MINUTES + 2}

\* Time passes, up to one of the instants
TickTo(t) ==
    /\ t > now
    /\ now' = t
    /\ resp' = [op |-> "tick"]
    /\ db_unchanged
    /\ UNCHANGED <<rng, client_tokens, cred, calls>>

\* the passwords the two registered users log in with
RegisteredPasswords == {<<"a">>, <<>>}

\* the access tokens that login and refresh have handed out
IssuedAccessTokens == {c.access_token : c \in client_tokens}

InitAccess ==
    /\ Registered("development")
    /\ cred = NoCred

NextAccess ==
    \/ \E email \in Emails, password \in RegisteredPasswords, salt \in LoginSalts :
          login(email, password, salt)
    \/ \E k \in 1..MaxRawTokens, salt \in LoginSalts :
          refresh_token(RawToken(k), salt)
    \/ \E credentials \in IssuedAccessTokens : get_user_profile(credentials)
    \/ \E t \in AccessInstants : TickTo(t)

SpecAccess == InitAccess /\ [][NextAccess]_vars

\* C24 as stated: an access token that login or refresh issued is accepted
\* at every time before its expiry and rejected at every time at or after it.
C24_StatelessAccessTokens ==
    [][(resp'.op = "get_user_profile" /\ resp'.credentials \in IssuedAccessTokens) =>
        IF now < resp'.credentials.claims.exp
        THEN /\ resp'.status = 200
             /\ resp'.user.email = resp'.credentials.claims.sub
        ELSE resp'.status = 401]_vars

\* C24: stateless access tokens, amended.  An access token that login or
\* refresh issued for a user is accepted, as that user, at every time up to
\* and including the instant of its expiry (30 minutes after issue),
\* whatever logins, rotations or refresh-token expiries happened since; at
\* every later time it is rejected.  Verification writes nothing.
C24_AcceptedThroughExpiry ==
    [][(resp'.op = "get_user_profile" /\ resp'.credentials \in IssuedAccessTokens) =>
        /\ IF now <= resp'.credentials.claims.exp
           THEN /\ resp'.status = 200
                /\ resp'.user.email = resp'.credentials.claims.sub
           ELSE resp'.status = 401
        /\ refresh_tokens' = refresh_tokens
        /\ client_tokens' = client_tokens]_vars

\* C24 witness: an access token from a login is accepted at the instant of
\* its expiry, after the refresh token of the same login was rotated and
\* while another session's refresh token has expired.
C24_Witness ==
    /\ resp.op = "get_user_profile"
    /\ resp.status = 200
    /\ now = resp.credentials.claims.exp
    /\ \E c \in client_tokens : c.access_token = resp.credentials /\ c.redeemed
    /\ \E token \in refresh_tokens : token.expires_at <= now

(***************************************************************************)
(* Claims about the transcript listing.                                    *)
(***************************************************************************)
\* the later of created_at and updated_at, a null updated_at counting as created_at
LastTouched(row) ==
    IF row.updated_at = NullTime \/ row.updated_at < row.created_at
    THEN row.created_at
    ELSE row.updated_at

\* C25: transcript listing order.  The list GET /transcripts/ returns is in
\* descending order of the later of created_at and updated_at (a null
\* updated_at counting as created_at): no transcript of the list is followed
\* by one that was created or updated later than it.
C25_ListingOrder ==
    (resp.op = "read_transcripts" /\ Authenticated(resp)) =>
        \A i, j \in 1..Len(resp.body) :
            i < j => LastTouched(resp.body[i]) >= LastTouched(resp.body[j])

(***************************************************************************)
(* SpecService: the note generation service applied to drawn provider      *)
(* behaviours (ai_services.py 52-84, 122-150).  cred holds the behaviour   *)
(* of the provider in the first and a second request, and what the two     *)
(* service functions did with it.                                          *)
(***************************************************************************)
Completions == ProviderAnswers \cup {NoChoices, EmptyText}

NotCalled == [calls |-> 0]

InitService ==
    /\ InitDb
    /\ \E first \in Completions, second \in Completions :
          cred = [kind |-> "service", answers |-> <<first, second>>, done |-> {},
                  response |-> NotCalled, questions |-> NotCalled]

\* await self._call_deepseek(prompt)
call_deepseek_applied ==
    /\ cred.kind = "service"
    /\ "call_deepseek" \notin cred.done
    /\ cred' = [cred EXCEPT !.done = @ \cup {"call_deepseek"},
                            !.response = call_deepseek(cred.answers)]
    /\ UNCHANGED <<users, refresh_tokens, transcripts, notes, seq, ENVIRONMENT, now, rng,
                   resp, client_tokens, calls>>

\* await deepseek_service.generate_follow_up_questions(note_content)
generate_follow_up_questions_applied ==
    /\ cred.kind = "service"
    /\ "generate_follow_up_questions" \notin cred.done
    /\ cred' = [cred EXCEPT !.done = @ \cup {"generate_follow_up_questions"},
                            !.questions = deepseek_questions(cred.answers)]
    /\ UNCHANGED <<users, refresh_tokens, transcripts, notes, seq, ENVIRONMENT, now, rng,
                   resp, client_tokens, calls>>

NextService ==
    \/ call_deepseek_applied
    \/ generate_follow_up_questions_applied

SpecService == InitService /\ [][NextService]_vars

\* C26: an empty provider response is an error.  _call_deepseek raises a
\* "DeepSeek API error" and returns no value when the provider call raises,
\* when the response has no choices, and when the content of the first
\* choice is None; generate_follow_up_questions raises, and returns no
\* question list, when the returned text is empty or is no JSON.
C26_EmptyResponseIsError ==
    /\ ("call_deepseek" \in cred.done
            /\ cred.answers[1].kind \in {"error", "no_choices", "none"}) =>
           /\ cred.response.raised
           /\ SubSeq(cred.response.message, 1, 3) = <<"DeepSeek", "API", "error:">>
    /\ ("generate_follow_up_questions" \in cred.done
            /\ cred.answers[1].kind \in {"empty", "text"}) =>
           ~cred.questions.ok

(***************************************************************************)
(* SpecRotate: refresh requests served to several clients at once.  A call *)
(* scans the unexpired rows and loads the user (main.py 120-142); it       *)
(* awaits the database more than once before its commit, so other calls    *)
(* run in between; then it overwrites the row it matched and commits       *)
(* (main.py 145-164).  Each request has its own database session.          *)
(***************************************************************************)
\* main.py 120-142: the scan, the match, the user
refresh_scan(presented) ==
    LET matching_token == fetch_one(matching_tokens(presented))
        request == [op |-> "refresh", presented |-> presented]
    IN  /\ Len(calls) < MaxCalls
        /\ IF matching_token = NoRow
           THEN /\ resp' = request @@ [status |-> 401, detail |-> "Invalid refresh token"]
                /\ calls' = Append(calls, [pc |-> "done"])
           ELSE LET user == get_user(matching_token.user_id)
                IN  IF user = NoRow
                    THEN /\ resp' = request @@ [status |-> 401, detail |-> "User not found"]
                         /\ calls' = Append(calls, [pc |-> "done"])
                    ELSE /\ resp' = [op |-> "refresh_await", call |-> Len(calls) + 1]
                         /\ calls' = Append(calls,
                                [pc |-> "commit", presented |-> presented,
                                 matching_token |-> matching_token, user |-> user])
        /\ db_unchanged
        /\ UNCHANGED <<now, rng, client_tokens, cred>>

\* db.commit() of a session whose matching_token object was modified: UPDATE
\* refresh_tokens SET token_hash, expires_at, created_at WHERE id = the id of
\* the object, whatever the row holds by now
commit_by_id(matching_token, new_hash) ==
    {IF token.id = matching_token.id THEN rotate(token, new_hash) ELSE token :
        token \in refresh_tokens}

\* main.py 145-164: the new tokens, the overwrite of the matched row, the commit
refresh_commit(r, salt) ==
    LET call == calls[r]
        access_token == create_access_token([sub |-> call.user.email], now)
        new_refresh_token == create_refresh_token
        new_refresh_token_hash == get_refresh_token_hash(new_refresh_token, salt)
    IN  /\ call.pc = "commit"
        /\ rng < MaxRawTokens
        /\ rng' = rng + 1
        /\ calls' = [calls EXCEPT ![r] = [pc |-> "done"]]
        /\ refresh_tokens' = commit_by_id(call.matching_token, new_refresh_token_hash)
        /\ resp' = [op |-> "refresh", presented |-> call.presented,
                    matched |-> call.matching_token.id] @@
                   [status |-> 200, access_token |-> access_token,
                    refresh_token |-> new_refresh_token, token_type |-> "bearer"]
        /\ client_tokens' =
               {IF c.token = call.presented THEN [c EXCEPT !.redeemed = TRUE] ELSE c :
                    c \in client_tokens}
               \cup {[token |-> new_refresh_token,
                      access_token |-> access_token,
                      expires_at |-> now + REFRESH_TOKEN_EXPIRE_MINUTES,
                      redeemed |-> FALSE]}
        /\ UNCHANGED <<users, transcripts, notes, seq, ENVIRONMENT, now, cred>>

NextRotate ==
    \/ \E email \in Emails, password \in RegisteredPasswords, salt \in LoginSalts :
          login(email, password, salt)
    \/ \E k \in 1..MaxRawTokens : refresh_scan(RawToken(k))
    \/ \E r \in 1..Len(calls), salt \in LoginSalts : refresh_commit(r, salt)
    \/ \E d \in Deltas : Tick(d)

SpecRotate == InitAccess /\ [][NextRotate]_vars

\* C27: a refresh token is redeemed at most once under interleaving.  No
\* refresh request succeeds with a raw token that an earlier successful
\* request has already redeemed, and every refresh token a client holds
\* that was not redeemed and has not expired matches an unexpired row.
C27_RedeemedAtMostOnce ==
    [][/\ (resp'.op = "refresh" /\ resp'.status = 200) =>
              \A c \in client_tokens : c.token = resp'.presented => ~c.redeemed
       /\ \A c \in client_tokens' :
              (~c.redeemed /\ c.expires_at > now') =>
                  \E token \in refresh_tokens' :
                      /\ token.expires_at > now'
                      /\ verify_refresh_token(c.token, token.token_hash)]_vars

\* C28: no orphan notes.  In every reachable state, states reached by
\* interleaving a delete-transcript request with a generate-note request
\* for the same transcript included, the transcript_id of every notes row
\* is the id of a transcripts row.
C28_NoOrphanNotes ==
    \A n \in notes : \E t \in transcripts : t.id = n.transcript_id

(***************************************************************************)
(* SpecRegister: register requests served to several clients at once.  A   *)
(* call looks the email up (main.py 64-70), awaits, and inserts (main.py   *)
(* 72, crud.py 8-18).  users.email is declared unique (models.py 13): the  *)
(* insert of a second row with an email raises IntegrityError, which the   *)
(* handler does not catch, and the request is answered 500.                *)
(***************************************************************************)
\* main.py 64-70: the lookup of the email
register_check(email, password) ==
    LET request == [op |-> "register", email |-> email, password |-> password]
        existing_user_by_email == get_user_by_email(email)
    IN  /\ Len(calls) < MaxCalls
        /\ IF existing_user_by_email # NoRow
           THEN /\ resp' = request @@ [status |-> 400, detail |-> "Email already registered"]
                /\ calls' = Append(calls, [pc |-> "done"])
           ELSE /\ resp' = [op |-> "register_await", call |-> Len(calls) + 1]
                /\ calls' = Append(calls, [pc |-> "insert"] @@ request)
        /\ db_unchanged
        /\ UNCHANGED <<now, rng, client_tokens, cred>>

\* main.py 72: crud.create_user, against the table as it is by now
register_insert(r, salt) ==
    LET call == calls[r]
        request == [op |-> "register", email |-> call.email, password |-> call.password]
        row == create_user([email |-> call.email, password |-> call.password], salt)
    IN  /\ call.pc = "insert"
        /\ calls' = [calls EXCEPT ![r] = [pc |-> "done"]]
        /\ IF \E u \in users : u.email = call.email
           THEN /\ resp' = request @@ internal_server_error
                /\ UNCHANGED <<users, seq>>
           ELSE /\ seq.users < MaxUsers
                /\ users' = users \cup {row}
                /\ seq' = [seq EXCEPT !.users = row.id]
                /\ resp' = request @@ [status |-> 200, id |-> row.id]
        /\ UNCHANGED <<refresh_tokens, transcripts, notes, ENVIRONMENT, now, rng,
                       client_tokens, cred>>

NextRegister ==
    \/ \E email \in Emails, password \in LoginPasswords : register_check(email, password)
    \/ \E r \in 1..Len(calls), salt \in LoginSalts : register_insert(r, salt)
    \/ \E email \in Emails, password \in LoginPasswords, salt \in LoginSalts :
          login(email, password, salt)

SpecRegister == Init /\ [][NextRegister]_vars

\* C29: email uniqueness under concurrent registration.  No two users rows
\* share an email; a register request for an email that no row has creates
\* the user; and a register request for an email that a row already has,
\* also when that row was inserted after the request's own lookup, is
\* answered 400 "Email already registered" and writes nothing.
C29_EmailUniqueness ==
    [][/\ \A u, v \in users' : u.email = v.email => u = v
       /\ (resp'.op = "register") =>
             IF \E u \in users : u.email = resp'.email
             THEN /\ resp'.status = 400
                  /\ resp'.detail = "Email already registered"
                  /\ users' = users
             ELSE /\ resp'.status = 200
                  /\ \E u \in users' : u.email = resp'.email /\ users' = users \cup {u}]_vars

\* C30: refresh binds to the token's owner.  When a refresh request
\* succeeds, the presented token matched an unexpired row, the subject of
\* the new access token is the email of the user with that row's user_id,
\* the row keeps its id and user_id and now holds the hash of the new
\* refresh token, and the number of refresh_tokens rows is unchanged; when
\* the presented token matches no unexpired row the request is answered 401
\* without tokens and writes nothing; only a successful login adds a row.
C30_RefreshBindsToOwner ==
    [][/\ (resp'.op = "refresh" /\ resp'.status = 200) =>
             /\ \E row \in matching_tokens(resp'.presented), owner \in users :
                   /\ owner.id = row.user_id
                   /\ resp'.access_token.claims.sub = owner.email
                   /\ \E after \in refresh_tokens' :
                         /\ after.id = row.id
                         /\ after.user_id = row.user_id
                         /\ verify_refresh_token(resp'.refresh_token, after.token_hash)
                         /\ refresh_tokens' \ {after} = refresh_tokens \ {row}
             /\ Cardinality(refresh_tokens') = Cardinality(refresh_tokens)
       /\ (resp'.op = "refresh" /\ matching_tokens(resp'.presented) = {}) =>
             /\ resp'.status = 401
             /\ "access_token" \notin DOMAIN resp'
             /\ "refresh_token" \notin DOMAIN resp'
             /\ refresh_tokens' = refresh_tokens
       /\ Cardinality(refresh_tokens') # Cardinality(refresh_tokens) =>
             /\ resp'.op = "login"
             /\ resp'.status = 200
             /\ Cardinality(refresh_tokens') = Cardinality(refresh_tokens) + 1]_vars

\* C30 witness: two users hold a session each, and a refresh has just
\* rotated the session of the second user and returned a token for it.
C30_Witness ==
    /\ resp.op = "refresh"
    /\ resp.status = 200
    /\ resp.access_token.claims.sub = "b@x.io"
    /\ \E mine, other \in refresh_tokens :
          /\ mine.user_id # other.user_id
          /\ verify_refresh_token(resp.refresh_token, mine.token_hash)
          /\ \E u \in users : u.id = mine.user_id /\ u.email = "b@x.io"

====
